---------------------------- MODULE Spec2Model ----------------------------
(* The caching and resilient-invocation layer of the handwriting grader:    *)
(* grading_utils.get_cache_key / get_from_cache / save_to_cache, the retry  *)
(* loop run_agent_with_retry, and the *_with_ai entry points that wrap the  *)
(* remote model behind them.                                               *)
(*                                                                         *)
(* Python values are tagged records [t |-> <type name>, v |-> <content>].  *)
(* Floats are fixed-point numbers counted in tenths (7.5 is 75, 1.0 is 10). *)
EXTENDS Integers, Sequences, FiniteSets, TLC

-----------------------------------------------------------------------------
(* Python values                                                           *)

None == [t |-> "NoneType"]
PyStr(s) == [t |-> "str", v |-> s]
PyInt(n) == [t |-> "int", v |-> n]
PyBytes(s) == [t |-> "bytes", v |-> s]
PyDict(f) == [t |-> "dict", v |-> f]
PyTuple(s) == [t |-> "tuple", v |-> s]
PyList(s) == [t |-> "list", v |-> s]
PyObj(cls, f) == [t |-> cls, v |-> f]

\* float(n) of an int n, in tenths
Float(n) == 10 * n

Max(a, b) == IF a >= b THEN a ELSE b
Min(a, b) == IF a <= b THEN a ELSE b

\* hashlib.sha256(x).hexdigest() of the text x (a tuple of its pieces), the
\* hash taken as injective
sha256(x) == [sha256 |-> x]

-----------------------------------------------------------------------------
(* grading_utils.get_cache_key                                             *)
(* A keyword-argument mapping is a sequence of <<name, value>> pairs with   *)
(* distinct names, in insertion order (a Python dict).                      *)

\* every parameter name in use, in the order sorted() puts them
KeyOrder ==
    << "answer", "content_hash", "image_hash", "marks", "model", "payload_hash",
       "question", "scheme", "student_id", "sub_type", "type", "version" >>

Names(d) == {d[i][1] : i \in DOMAIN d}
Get(d, n) == LET i == CHOOSE i \in DOMAIN d : d[i][1] = n IN d[i][2]

\* d[n] = x : an existing name keeps its place, a new one goes last
DictSet(d, n, x) ==
    IF n \in Names(d)
    THEN [i \in DOMAIN d |-> IF d[i][1] = n THEN <<n, x>> ELSE d[i]]
    ELSE Append(d, <<n, x>>)

\* {**d, **e}
RECURSIVE DictUpdate(_, _)
DictUpdate(d, e) ==
    IF e = <<>> THEN d
    ELSE DictUpdate(DictSet(d, Head(e)[1], Head(e)[2]), Tail(e))

\* what json.dumps can encode
JsonSerializable(x) == x.t \in {"str", "int", "NoneType"}

\* the JSON text of a scalar: a quoted string, a number literal, null
JsonScalar(x) ==
    CASE x.t = "str" -> <<"string", x.v>>
      [] x.t = "int" -> <<"number", ToString(x.v)>>
      [] OTHER -> <<"null">>

\* repr(x), as str(dict) prints a value
Repr(x) ==
    CASE x.t = "str" -> <<"'", x.v, "'">>
      [] x.t = "int" -> <<ToString(x.v)>>
      [] x.t = "bytes" -> <<"b'", x.v, "'">>
      [] x.t = "int64" -> <<"np.int64(", ToString(x.v), ")">>
      [] OTHER -> <<"None">>

\* json.dumps(d, sort_keys=True, ensure_ascii=False) of a mapping of scalars
JsonDumpsSorted(d) ==
    LET ks == SelectSeq(KeyOrder, LAMBDA n : n \in Names(d))
    IN [i \in DOMAIN ks |-> <<ks[i], JsonScalar(Get(d, ks[i]))>>]

\* a text that leaves the items out
StrDict_empty(d) == <<>>

\* str(d): the items in insertion order
StrDict(d) == [i \in DOMAIN d |-> <<d[i][1], Repr(d[i][2])>>]

\* a version that is always reset to "2.0"
WithVersion_reset(params) == DictSet(params, "version", PyStr("2.0"))

\* params after lines 127-128: the version defaults to "2.0"
WithVersion(params) ==
    IF "version" \notin Names(params)
    THEN Append(params, <<"version", PyStr("2.0")>>)
    ELSE params

get_cache_key(cache_type, params) ==
    LET p == WithVersion(params)
        key_data == DictUpdate(<< <<"type", PyStr(cache_type)>> >>, p)
    IN IF \A i \in DOMAIN key_data : JsonSerializable(key_data[i][2])
       THEN <<cache_type, sha256(<<"json", JsonDumpsSorted(key_data)>>)>>
       ELSE <<cache_type, sha256(<<"str", cache_type, "_", StrDict(p)>>)>>

-----------------------------------------------------------------------------
(* grading_utils.get_from_cache / save_to_cache                            *)
(* The cache directory is a function from keys (one file per key) to the   *)
(* JSON text of the file.                                                  *)

\* json.dump(data): dicts become objects; tuples and lists both become arrays
json_dump(data) ==
    CASE data.t = "dict" -> [j |-> "object", v |-> data.v]
      [] data.t \in {"tuple", "list"} -> [j |-> "array", v |-> data.v]
      [] data.t = "str" -> [j |-> "string", v |-> data.v]
      [] OTHER -> [j |-> "null"]

\* json.load(f): objects become dicts, arrays become lists
json_load(text) ==
    CASE text.j = "object" -> PyDict(text.v)
      [] text.j = "array" -> PyList(text.v)
      [] text.j = "string" -> PyStr(text.v)
      [] OTHER -> None

\* a lookup that never finds anything
get_from_cache_absent(store, cache_key, io) == None

\* the file holds only the beginning of a JSON text
Truncated == [j |-> "truncated"]

\* json.load(f) returns: it raises JSONDecodeError for a text cut short
Decodable(text) == text.j # "truncated"

\* a lookup that makes an empty dict of a text it cannot parse
get_from_cache_lenient(store, cache_key, io) ==
    IF io = "ok" /\ cache_key \in DOMAIN store
    THEN IF Decodable(store[cache_key])
         THEN json_load(store[cache_key])
         ELSE PyDict([f \in {} |-> ""])
    ELSE None

\* a lookup that hands out the entry whatever the read did
get_from_cache_despite_fault(store, cache_key, io) ==
    IF cache_key \in DOMAIN store /\ Decodable(store[cache_key])
    THEN json_load(store[cache_key])
    ELSE None

\* io is what the file system does: "ok", or "error" (open or json.load
\* raises: the file cannot be read, or what it holds is no JSON text); any
\* exception ends in `return None`
get_from_cache(store, cache_key, io) ==
    IF io = "ok" /\ cache_key \in DOMAIN store /\ Decodable(store[cache_key])
    THEN json_load(store[cache_key])
    ELSE None

\* a write that leaves the directory as it was
WriteFile_nothing(store, cache_key, text) == store

WriteFile(store, cache_key, text) ==
    [k \in DOMAIN store \cup {cache_key} |-> IF k = cache_key THEN text ELSE store[k]]

\* a save that leaves an entry that is already there
save_to_cache_keep_first(store, cache_key, data, io) ==
    IF io = "ok" /\ cache_key \notin DOMAIN store
    THEN WriteFile(store, cache_key, json_dump(data))
    ELSE store

\* io: "ok", "error" (makedirs or open raises: nothing is written), or
\* "partial" (open has emptied the file and json.dump raises on the way)
save_to_cache(store, cache_key, data, io) ==
    CASE io = "ok" -> WriteFile(store, cache_key, json_dump(data))
      [] io = "partial" -> WriteFile(store, cache_key, Truncated)
      [] OTHER -> store

\* a save whose fault reaches the caller
save_raises_on_fault(io) == io # "ok"

\* lines 183-184: `except Exception` prints a warning, nothing is raised
save_raises(io) == FALSE

-----------------------------------------------------------------------------
(* The pydantic result models                                              *)

Required(cls) ==
    CASE cls = "GradingResult" ->
            {"extracted_text", "similarity_score", "mark", "reasoning"}
      [] cls = "StudentPerformanceResponse" -> {"report_text"}
      [] cls = "ClassOverviewResponse" -> {"report_text"}
      [] cls = "QuestionAnalysisResponse" -> {"report_text"}
      [] cls = "MarkingSchemeResponse" -> {"questions"}
      [] cls = "VerificationResponse" -> {"items", "general_feedback"}
      [] cls = "ModerationResponse" -> {"items"}
      [] OTHER -> {"boxes"}

\* the fields that have a default, and the default
Optional(cls) ==
    CASE cls \in {"ClassOverviewResponse", "QuestionAnalysisResponse"} ->
            {"infograph_image_path"}
      [] cls = "MarkingSchemeResponse" -> {"general_grading_guide"}
      [] OTHER -> {}

Default(cls, f) == IF f = "infograph_image_path" THEN None ELSE ""

\* cls(**d) validates: every required field is there
Constructible(cls, d) == d.t = "dict" /\ Required(cls) \subseteq DOMAIN d.v

\* cls(**d): the declared fields, defaults filled in, anything else dropped
Construct(cls, d) ==
    PyObj(cls, [f \in Required(cls) \cup Optional(cls) |->
                    IF f \in DOMAIN d.v THEN d.v[f] ELSE Default(cls, f)])

model_dump(obj) == PyDict(obj.v)

\* bool(x)
Truthy(x) ==
    CASE x.t = "NoneType" -> FALSE
      [] x.t = "dict" -> DOMAIN x.v # {}
      [] x.t \in {"list", "tuple"} -> Len(x.v) > 0
      [] x.t \in {"str", "bytes"} -> x.v # ""
      [] OTHER -> TRUE

-----------------------------------------------------------------------------
(* agents/common.py: one iteration of the loop of run_agent_with_retry.    *)
(* A remote result r is what one run of the agent leaves behind: an        *)
(* exception, or session.state[output_key].                                *)

\* a handler that re-raises at once
OnException_give_up(att, retries) == [ctl |-> "raise", sleep |-> 0, value |-> None]

\* a handler that never gives up
OnException_retry_forever(att, retries) ==
    [ctl |-> "continue", sleep |-> 2 ^ att, value |-> None]

\* a handler that sleeps one second whatever the attempt
OnException_fixed_delay(att, retries) ==
    IF att < retries - 1
    THEN [ctl |-> "continue", sleep |-> 1, value |-> None]
    ELSE [ctl |-> "raise", sleep |-> 0, value |-> None]

\* a handler that backs off before it re-raises as well
OnException_sleep_then_raise(att, retries) ==
    IF att < retries - 1
    THEN [ctl |-> "continue", sleep |-> 2 ^ att, value |-> None]
    ELSE [ctl |-> "raise", sleep |-> 2 ^ att, value |-> None]

\* lines 107-114: sleep and go on while attempts remain, re-raise otherwise
OnException(att, retries) ==
    IF att < retries - 1
    THEN [ctl |-> "continue", sleep |-> 2 ^ att, value |-> None]
    ELSE [ctl |-> "raise", sleep |-> 0, value |-> None]

\* a loop that gives up at the first output it cannot use
run_agent_attempt_no_retry(output_type, att, retries, r) ==
    IF r.kind = "state" /\ Truthy(r.output) /\ r.output.t = "dict"
       /\ Constructible(output_type, r.output)
    THEN [ctl |-> "return", sleep |-> 0, value |-> Construct(output_type, r.output)]
    ELSE IF r.kind = "state" /\ Truthy(r.output) /\ r.output.t = output_type
    THEN [ctl |-> "return", sleep |-> 0, value |-> r.output]
    ELSE [ctl |-> "raise", sleep |-> 0, value |-> None]

\* a loop that answers a failed run with an empty object of the output type
run_agent_attempt_placeholder(output_type, att, retries, r) ==
    IF r.kind = "state" /\ Truthy(r.output) /\ r.output.t = "dict"
       /\ Constructible(output_type, r.output)
    THEN [ctl |-> "return", sleep |-> 0, value |-> Construct(output_type, r.output)]
    ELSE IF r.kind = "state" /\ Truthy(r.output) /\ r.output.t = output_type
    THEN [ctl |-> "return", sleep |-> 0, value |-> r.output]
    ELSE [ctl |-> "return", sleep |-> 0,
          value |-> PyObj(output_type,
                          [f \in Required(output_type) \cup Optional(output_type) |->
                              IF f \in {"mark", "similarity_score"}
                              THEN 0 ELSE Default(output_type, f)])]

\* lines 69-114; sleep = 0 stands for no call of time.sleep
run_agent_attempt(output_type, att, retries, r) ==
    IF r.kind = "raise" THEN OnException(att, retries)
    ELSE LET structured_output == r.output IN
         IF Truthy(structured_output) /\ structured_output.t = "dict"
         THEN IF Constructible(output_type, structured_output)
              THEN [ctl |-> "return", sleep |-> 0,
                    value |-> Construct(output_type, structured_output)]
              ELSE OnException(att, retries)
         ELSE IF Truthy(structured_output) /\ structured_output.t = output_type
         THEN [ctl |-> "return", sleep |-> 0, value |-> structured_output]
         ELSE IF att = retries - 1
         THEN OnException(att, retries)
         ELSE [ctl |-> "continue", sleep |-> 0, value |-> None]

-----------------------------------------------------------------------------
(* The cached entry points: key derivation and cache lookup of each call   *)
(* site. A lookup yields [hit, value]: the value returned on a hit.        *)

Hit(x) == [hit |-> TRUE, kind |-> "hit", value |-> x]
Miss == [hit |-> FALSE, kind |-> "miss", value |-> None]
\* a return before the loop that is no cache hit
Early(x) == [hit |-> TRUE, kind |-> "early", value |-> x]

Model == <<"model", PyStr("gemini-3-flash-preview")>>

\* a key of the grading that leaves total_marks out
grade_answer_key_without_marks(rq) ==
    get_cache_key("grade_answer",
        << Model, <<"question", PyStr(rq.question)>>, <<"answer", PyStr(rq.answer)>>,
           <<"scheme", PyStr(rq.scheme)>> >>)

\* grading_agent/agent.py lines 53-60
grade_answer_key(rq) ==
    get_cache_key("grade_answer",
        << Model, <<"question", PyStr(rq.question)>>, <<"answer", PyStr(rq.answer)>>,
           <<"scheme", PyStr(rq.scheme)>>,
           <<"marks", IF rq.numpy THEN PyObj("int64", rq.total_marks)
                      ELSE PyInt(rq.total_marks)>> >>)

\* grading_agent/agent.py lines 129-138
grade_answer_ocr_key(rq) ==
    get_cache_key("grade_answer_ocr",
        << Model, <<"question", PyStr(rq.question)>>, <<"scheme", PyStr(rq.scheme)>>,
           <<"marks", PyInt(rq.total_marks)>>,
           <<"image_hash", PyStr(sha256(<<rq.image_data>>))>> >>)

\* x.encode("utf-8") returns: only a str has the method, for anything else
\* the AttributeError ends the try of the lookup with cache_key still None
Encodable(x) == x.t = "str"

\* analytics_agent/agent.py lines 63-69
performance_report_key(rq) ==
    get_cache_key("performance_report",
        << Model, <<"student_id", PyStr(rq.student_id)>>,
           <<"payload_hash", PyStr(sha256(<<rq.question_details>>))>> >>)

\* analytics_agent/agent.py lines 238-245
class_overview_key(rq) ==
    get_cache_key("class_overview_report",
        << Model,
           <<"payload_hash", PyStr(sha256(<<rq.summary_payload, rq.sample_reports>>))>> >>)

\* analytics_agent/agent.py lines 424-431
question_insights_key(rq) ==
    get_cache_key("class_overview_report",
        << <<"sub_type", PyStr("question_insights")>>, Model,
           <<"payload_hash", PyStr(sha256(<<rq.question_data_payload>>))>> >>)

\* marking_scheme_agent/agent.py lines 187-192
marking_scheme_key(rq) ==
    get_cache_key("marking_scheme_extraction",
        << Model, <<"content_hash", PyStr(sha256(<<rq.markdown_content>>))>> >>)

\* lines 61-64 and 139-142: `if cached: return GradingResult(**cached)`; the
\* constructor's ValidationError is swallowed by the except of line 65
grading_lookup(cached) ==
    IF Truthy(cached) /\ Constructible("GradingResult", cached)
    THEN Hit(Construct("GradingResult", cached))
    ELSE Miss

\* analytics_agent/agent.py lines 70-73
student_report_lookup(cached) ==
    IF cached # None /\ cached.t = "dict" /\ "report" \in DOMAIN cached.v
    THEN Hit(PyStr(cached.v.report))
    ELSE Miss

\* str(image_path).startswith("IMAGE_GENERATION_")
FailureMarkers == {"IMAGE_GENERATION_FAILED", "IMAGE_GENERATION_ERROR: quota"}

\* no check of the image file
ImageMissing_never(cached, fs) == FALSE

\* a check that takes a failure marker for a path as well
ImageMissing_markers_too(cached, fs) ==
    LET image_path ==
            IF "infograph_image_path" \in DOMAIN cached.v
            THEN cached.v.infograph_image_path ELSE None
    IN /\ Truthy(image_path)
       /\ image_path.v \notin fs

\* lines 249-252 and 435-438: the entry is dropped when it names a real path
\* that os.path.exists() does not find
ImageMissing(cached, fs) ==
    LET image_path ==
            IF "infograph_image_path" \in DOMAIN cached.v
            THEN cached.v.infograph_image_path ELSE None
    IN /\ Truthy(image_path)
       /\ image_path.v \notin FailureMarkers
       /\ image_path.v \notin fs

\* analytics_agent/agent.py lines 246-256 (field "report") and 432-442
\* (field "report_text"): a hit returns the cached dict itself
artifact_lookup(cached, field, fs) ==
    IF cached # None /\ cached.t = "dict" /\ field \in DOMAIN cached.v
       /\ ~ImageMissing(cached, fs)
    THEN Hit(cached)
    ELSE Miss

\* the characters of a str, for the strings a cache file of the model holds
\* as its whole JSON text; indexing a str gives its characters
Characters(s) ==
    CASE s = "plain text" -> <<"p", "l", "a", "i", "n", " ", "t", "e", "x", "t">>
      [] s = "x" -> <<"x">>
      [] OTHER -> <<>>

\* marking_scheme_agent/agent.py lines 193-197: `return cached[0], cached[1]`;
\* the KeyError or IndexError of an ill-shaped entry is swallowed by line 198
marking_scheme_lookup(cached) ==
    IF cached # None /\ cached.t \in {"list", "tuple"} /\ Len(cached.v) >= 2
    THEN Hit(PyTuple(<<cached.v[1], cached.v[2]>>))
    ELSE IF cached # None /\ cached.t = "str" /\ Len(Characters(cached.v)) >= 2
         THEN Hit(PyTuple(<<Characters(cached.v)[1], Characters(cached.v)[2]>>))
         ELSE Miss

-----------------------------------------------------------------------------
(* What the entry points do with the result of the retry loop              *)

\* max(lo, min(hi, x))
Clamp(lo, hi, x) == Max(lo, Min(hi, x))

\* the result as the model gave it
sanitize_grading_raw(result, total_marks) == result

\* grading_agent/agent.py lines 103-105 and 184-186
sanitize_grading(result, total_marks) ==
    PyObj("GradingResult",
          [result.v EXCEPT !.similarity_score = Clamp(0, Float(1), @),
                           !.mark = Clamp(0, Float(total_marks), @)])

CachedEntryPoints ==
    {"grade_answer_with_ai", "grade_answer_with_ocr_and_ai",
     "generate_student_report_with_ai", "generate_class_overview_with_ai",
     "generate_question_insights_with_ai", "extract_marking_scheme_with_ai"}

\* the entry points built on run_agent_with_retry
RunAgentEntryPoints == CachedEntryPoints \cup {"verify_marking_scheme_with_ai"}

EntryPoints ==
    RunAgentEntryPoints \cup
    {"moderate_grades_with_ai", "perform_ocr_with_ai", "extract_annotations_with_ai"}

\* the output_type each call site passes to run_agent_with_retry
OutputType(e) ==
    CASE e \in {"grade_answer_with_ai", "grade_answer_with_ocr_and_ai"} -> "GradingResult"
      [] e = "generate_student_report_with_ai" -> "StudentPerformanceResponse"
      [] e = "generate_class_overview_with_ai" -> "ClassOverviewResponse"
      [] e = "generate_question_insights_with_ai" -> "QuestionAnalysisResponse"
      [] e = "extract_marking_scheme_with_ai" -> "MarkingSchemeResponse"
      [] OTHER -> "VerificationResponse"

\* the value the call site returns for the result of run_agent_with_retry
ReturnOf(e, rq, result) ==
    CASE e \in {"grade_answer_with_ai", "grade_answer_with_ocr_and_ai"} ->
            sanitize_grading(result, rq.total_marks)
      [] e = "generate_student_report_with_ai" -> PyStr(result.v.report_text)
      [] e = "extract_marking_scheme_with_ai" ->
            PyTuple(<<result.v.questions, result.v.general_grading_guide>>)
      [] e = "verify_marking_scheme_with_ai" ->
            PyTuple(<<result.v.items, result.v.general_feedback>>)
      [] OTHER -> result

\* the data the call site hands to save_to_cache
PayloadOf(e, rq, result) ==
    CASE e \in {"grade_answer_with_ai", "grade_answer_with_ocr_and_ai"} ->
            model_dump(sanitize_grading(result, rq.total_marks))
      [] e = "generate_student_report_with_ai" ->
            PyDict([report |-> result.v.report_text])
      [] e = "generate_class_overview_with_ai" ->
            PyDict([report |-> result.v.report_text,
                    infograph_image_path |-> result.v.infograph_image_path])
      [] e = "generate_question_insights_with_ai" ->
            PyDict([report_text |-> result.v.report_text,
                    infograph_image_path |-> result.v.infograph_image_path])
      [] OTHER ->
            PyTuple(<<result.v.questions, result.v.general_grading_guide>>)

Returned(kind, x) == [kind |-> kind, value |-> x]

\* every entry point re-raising
OnFailure_raise(e, rq) == [kind |-> "raised", value |-> None]

\* the except branch that ends each entry point: a fallback value, or `raise`
OnFailure(e, rq) ==
    CASE e = "grade_answer_with_ai" ->
            Returned("fallback",
                PyObj("GradingResult",
                      [extracted_text |-> rq.answer, similarity_score |-> 0,
                       mark |-> 0, reasoning |-> "Error: Grading failed - error"]))
      [] e = "grade_answer_with_ocr_and_ai" ->
            Returned("fallback",
                PyObj("GradingResult",
                      [extracted_text |-> "", similarity_score |-> 0,
                       mark |-> 0, reasoning |-> "Error: OCR+Grading failed - error"]))
      [] e = "generate_student_report_with_ai" ->
            Returned("fallback", PyStr("Report generation failed: error"))
      [] e = "generate_class_overview_with_ai" ->
            Returned("fallback",
                PyObj("ClassOverviewResponse",
                      [report_text |-> "AI-generated class overview temporarily unavailable due to API issues.",
                       infograph_image_path |-> None]))
      [] e = "generate_question_insights_with_ai" ->
            Returned("fallback",
                PyObj("QuestionAnalysisResponse",
                      [report_text |-> "AI insights unavailable: error",
                       infograph_image_path |-> None]))
      [] e = "extract_marking_scheme_with_ai" -> Returned("raised", None)
      [] OTHER ->
            Returned("fallback", PyTuple(<< <<>>, "Verification failed due to technical error: error" >>))

-----------------------------------------------------------------------------
(* The loops the other entry points carry themselves                       *)

\* moderation_agent/agent.py lines 118-123
sanitize_moderation(items, total_marks) ==
    [i \in DOMAIN items |->
        [items[i] EXCEPT !.moderated_mark = Clamp(0, Float(total_marks), @)]]

\* moderation_agent/agent.py lines 134-136: the original marks
moderation_fallback(entries) ==
    [i \in DOMAIN entries |->
        [moderated_mark |-> entries[i].mark, flag |-> FALSE, note |-> "moderation_error"]]

\* moderation_agent/agent.py lines 127-132: the handler never re-raises
ModerationOnException(att, retries) ==
    [ctl |-> "continue", sleep |-> IF att < retries - 1 THEN 2 ^ att ELSE 0,
     value |-> None]

\* an iteration that takes a response of any length
moderation_attempt_any_length(entries, total_marks, att, retries, r) ==
    IF r.kind = "state" /\ Truthy(r.output)
       /\ r.output.t \in {"dict", "ModerationResponse"}
       /\ "items" \in DOMAIN r.output.v
    THEN [ctl |-> "return", sleep |-> 0,
          value |-> PyList(sanitize_moderation(r.output.v.items, total_marks))]
    ELSE ModerationOnException(att, retries)

\* moderation_agent/agent.py lines 86-132, one iteration
moderation_attempt(entries, total_marks, att, retries, r) ==
    IF r.kind = "raise" THEN ModerationOnException(att, retries)
    ELSE LET out == r.output
             isdict == Truthy(out) /\ out.t = "dict"
         IN IF isdict /\ ~Constructible("ModerationResponse", out)
            THEN ModerationOnException(att, retries)
            ELSE LET structured_output ==
                         IF isdict THEN Construct("ModerationResponse", out) ELSE out
                 IN IF Truthy(structured_output)
                       /\ structured_output.t = "ModerationResponse"
                    THEN IF Len(structured_output.v.items) # Len(entries)
                         THEN ModerationOnException(att, retries)
                         ELSE [ctl |-> "return", sleep |-> 0,
                               value |-> PyList(sanitize_moderation(
                                            structured_output.v.items, total_marks))]
                    ELSE [ctl |-> "continue", sleep |-> 0, value |-> None]

\* str.strip() of the texts the model answers with
Strip(text) ==
    CASE text = " 42 " -> "42"
      [] text = "   " -> ""
      [] OTHER -> text

\* an iteration that hands back final_text as it came
ocr_attempt_unstripped(att, retries, r) ==
    IF r.kind = "raise"
    THEN IF att < retries - 1
         THEN [ctl |-> "continue", sleep |-> 2 ^ att, value |-> None]
         ELSE [ctl |-> "return", sleep |-> 0, value |-> PyStr("")]
    ELSE IF r.text # ""
         THEN [ctl |-> "return", sleep |-> 0, value |-> PyStr(r.text)]
         ELSE [ctl |-> "continue", sleep |-> 0, value |-> None]

\* ocr_agent/agent.py lines 78-125, one iteration; r.text is final_text
ocr_attempt(att, retries, r) ==
    IF r.kind = "raise"
    THEN IF att < retries - 1
         THEN [ctl |-> "continue", sleep |-> 2 ^ att, value |-> None]
         ELSE [ctl |-> "return", sleep |-> 0, value |-> PyStr("")]
    ELSE IF r.text # ""
         THEN [ctl |-> "return", sleep |-> 0, value |-> PyStr(Strip(r.text))]
         ELSE [ctl |-> "continue", sleep |-> 0, value |-> None]

EmptyBoxes == PyObj("BoundingBoxResponse", [boxes |-> <<>>])

\* annotation_agent/agent.py lines 178-188: the handler of the last attempt
\* returns the empty response
AnnotationOnException(att, retries) ==
    IF att < retries - 1
    THEN [ctl |-> "continue", sleep |-> 2 ^ att, value |-> None]
    ELSE [ctl |-> "fallback", sleep |-> 0, value |-> EmptyBoxes]

\* annotation_agent/agent.py lines 118-188, one iteration
annotation_attempt(att, retries, r) ==
    IF r.kind = "raise" THEN AnnotationOnException(att, retries)
    ELSE LET out == r.output
             isdict == Truthy(out) /\ out.t = "dict"
         IN IF isdict /\ ~Constructible("BoundingBoxResponse", out)
            THEN AnnotationOnException(att, retries)
            ELSE LET structured_output ==
                         IF isdict THEN Construct("BoundingBoxResponse", out) ELSE out
                 IN IF Truthy(structured_output)
                       /\ structured_output.t = "BoundingBoxResponse"
                    THEN [ctl |-> "return", sleep |-> 0, value |-> structured_output]
                    ELSE AnnotationOnException(att, retries)

-----------------------------------------------------------------------------
(* Bounds and inputs                                                       *)

\* the largest max_retries a call is made with (the default is 3)
MaxRetries == 3
\* the number of calls in one run
MaxCalls == 2
\* the most entries a moderation request carries
MaxEntries == 2

\* total_marks is an int, or (numpy) a numpy.int64 read from a data frame,
\* which json.dumps cannot encode
GradeRequests ==
    {[question |-> "Q1", answer |-> "A1", scheme |-> "S1", total_marks |-> 5,
      numpy |-> FALSE],
     [question |-> "Q1", answer |-> "A1", scheme |-> "S1", total_marks |-> 0,
      numpy |-> TRUE]}
OcrGradeRequests ==
    {[question |-> "Q1", scheme |-> "S1", total_marks |-> 5, image_data |-> "jpeg1"]}
\* question_details as the caller joined it, and a caller passing None
ReportRequests ==
    {[student_id |-> "s1", question_details |-> d] : d \in {PyStr("details1"), None}}
OverviewRequests == {[summary_payload |-> "summary1", sample_reports |-> "reports1"]}
InsightsRequests == {[question_data_payload |-> "payload1"]}
ExtractRequests == {[markdown_content |-> "doc1"]}
VerifyRequests == {[questions_data |-> "questions1"]}
EntryMarks == <<30, 70>>
ModerationRequests ==
    {[total_marks |-> 5, entries |-> [i \in 1..n |-> [mark |-> EntryMarks[(i % 2) + 1]]]] :
        n \in 0..MaxEntries}
\* image_path (None, a readable file, an unreadable one) and image_data
ReadableImages == {"page1.jpg", "empty.jpg"}
\* f.read() of a readable image: empty.jpg is a file of no bytes
ImageBytes(p) == IF p = "empty.jpg" THEN PyBytes("") ELSE PyBytes(p)
OcrRequests ==
    {[image_path |-> None, image_data |-> PyBytes("jpeg1")],
     [image_path |-> PyStr("gone.jpg"), image_data |-> PyBytes("jpeg1")],
     [image_path |-> PyStr("empty.jpg"), image_data |-> None],
     [image_path |-> PyStr("page1.jpg"), image_data |-> None],
     [image_path |-> PyStr("gone.jpg"), image_data |-> None],
     [image_path |-> None, image_data |-> None]}
AnnotationRequests == {[image_path |-> "page1.jpg"], [image_path |-> "gone.jpg"]}

\* the files the infographic tools can write
ImagePaths == {"/cache/class_overview_report/infograph_1.png"}

Raise == [kind |-> "raise", creates |-> {}]
State(out) == [kind |-> "state", output |-> out, creates |-> {}]
StateWithFiles(out, fs) == [kind |-> "state", output |-> out, creates |-> fs]
Text(x) == [kind |-> "text", text |-> x, creates |-> {}]
NoResult == [kind |-> "none", creates |-> {}]

EmptyDict == PyDict([f \in {} |-> ""])

\* structured outputs no output type accepts
BadOutputs == {None, EmptyDict, PyStr("plain text"), PyDict([unexpected |-> "x"])}

GradingFields(m, sim) ==
    [extracted_text |-> "A1", similarity_score |-> sim, mark |-> m, reasoning |-> "because"]

\* a mark above total_marks, one below zero, one in range
GradingOutputs ==
    {PyDict(GradingFields(75, 15)), PyDict(GradingFields(-10, -5)),
     PyDict(GradingFields(30, 5))}

ReportOutputs == {PyDict([report_text |-> "report A"])}

ImageOutputs ==
    UNION {{StateWithFiles(PyDict([report_text |-> "overview",
                                   infograph_image_path |-> PyStr(p)]), fs) :
                fs \in {{}, {p}}} : p \in ImagePaths}
    \cup {State(PyDict([report_text |-> "overview", infograph_image_path |-> PyStr(m)])) :
            m \in {"IMAGE_GENERATION_FAILED"}}
    \cup {State(PyDict([report_text |-> "overview"]))}

Question1 == [question_number |-> "1", question_text |-> "Q1", marking_scheme |-> "S1", marks |-> 5]
SchemeOutputs ==
    {PyDict([questions |-> <<Question1>>, general_grading_guide |-> "guide"])}

VerificationFields ==
    [items |-> <<[question_number |-> "1", is_correct |-> TRUE]>>,
     general_feedback |-> "fine"]
\* the output as a dict, and as an instance of the output type
VerificationOutputs ==
    {PyDict(VerificationFields), PyObj("VerificationResponse", VerificationFields)}

ModerationItem(m) == [moderated_mark |-> m, flag |-> TRUE, note |-> "adjusted"]
\* the marks the moderator answers with: above total_marks, below zero, in range
ModeratedMarks == <<75, -10, 30>>
ModerationOutputs ==
    {PyDict([items |-> [i \in 1..n |-> ModerationItem(ModeratedMarks[(i % 3) + 1])]]) :
        n \in 0..(MaxEntries + 1)}
    \cup {PyObj("ModerationResponse", [items |-> <<ModerationItem(75)>>])}

Box1 == [x |-> 1, y |-> 2, width |-> 3, height |-> 4, label |-> "1"]
BoxOutputs == {PyDict([boxes |-> <<Box1>>]), PyDict([boxes |-> <<>>])}

\* what one run of the remote agent can leave behind
RemoteResults(e) ==
    {Raise} \cup {State(out) : out \in BadOutputs} \cup
    CASE e \in {"grade_answer_with_ai", "grade_answer_with_ocr_and_ai"} ->
            {State(out) : out \in GradingOutputs}
      [] e = "generate_student_report_with_ai" -> {State(out) : out \in ReportOutputs}
      [] e \in {"generate_class_overview_with_ai", "generate_question_insights_with_ai"} ->
            ImageOutputs
      [] e = "extract_marking_scheme_with_ai" -> {State(out) : out \in SchemeOutputs}
      [] e = "verify_marking_scheme_with_ai" -> {State(out) : out \in VerificationOutputs}
      [] e = "moderate_grades_with_ai" -> {State(out) : out \in ModerationOutputs}
      [] OTHER -> {State(out) : out \in BoxOutputs}

OcrResults == {Raise, Text(""), Text(" 42 "), Text("   ")}

ReadIO == {"ok", "error"}
\* a read can fail only where there is a file to read
CanFault(store, cache_key, io) == io = "ok" \/ cache_key \in DOMAIN store
\* the faults of a write between sequential calls; a write cut short is
\* followed up with concurrent readers (SpecLoop)
WriteIO == {"ok", "error"}

-----------------------------------------------------------------------------
(* The state                                                               *)

VARIABLES
    store,        \* the cache directory: key -> JSON text of the file
    files,        \* the image files that exist
    pc,           \* "idle", "attempt" (inside the retry loop) or "done"
    ep,           \* the entry point of the current call
    req,          \* its request
    max_retries,  \* its max_retries
    cache_key,    \* its local cache_key: None, or the key as a tuple
    attempt,      \* the loop variable of the retry loop
    invocations,  \* the runs of the remote agent the call has made
    sleeps,       \* the arguments of the time.sleep calls the call has made
    last,         \* what the latest run of the remote agent left behind
    saved,        \* the save_to_cache call of the call: [data, io], or None
    ret,          \* how the call ended: [kind, value]
    read_io,      \* what the file system did at the call's cache lookup
    prev,         \* while idle: what the call before stored and returned,
                  \* [ep, req, data, value]
    calls,        \* the calls started so far
    derive,       \* two key derivations side by side (SpecKey)
    tasks,        \* the calls running as tasks of one event loop (SpecLoop)
    stores,       \* the save_to_cache calls of the tasks, in order (SpecLoop)
    sess,         \* the session service of one call (SpecSession)
    util          \* one call of a helper of grading_utils (SpecUtil), or one
                  \* run of reorder_notebook.py (SpecReorder)

vars == <<store, files, pc, ep, req, max_retries, cache_key, attempt,
          invocations, sleeps, last, saved, ret, read_io, prev, calls, derive,
          tasks, stores, sess, util>>

NoReturn == Returned("running", None)

Init ==
    /\ store = [k \in {} |-> None]
    /\ files = {}
    /\ pc = "idle"
    /\ ep = "none"
    /\ req = None
    /\ max_retries = 0
    /\ cache_key = None
    /\ attempt = 0
    /\ invocations = 0
    /\ sleeps = <<>>
    /\ last = NoResult
    /\ saved = None
    /\ ret = NoReturn
    /\ read_io = "none"
    /\ prev = None
    /\ calls = 0
    /\ derive = None
    /\ tasks = None
    /\ stores = <<>>
    /\ sess = None
    /\ util = None

\* what a call returns when its loop runs zero times (max_retries <= 0)
EmptyLoop(e, rq) ==
    CASE e \in RunAgentEntryPoints -> OnFailure(e, rq)
      [] e = "moderate_grades_with_ai" ->
            Returned("fallback", PyList(moderation_fallback(rq.entries)))
      [] e = "perform_ocr_with_ai" -> Returned("fallback", PyStr(""))
      [] OTHER -> Returned("none", None)

\* a call starts: the entry point has derived key and looked it up (lk), and
\* either returns at once (a hit, or no input to work on) or enters the loop
Begin(e, rq, n, key, io, lk) ==
    /\ pc = "idle"
    /\ calls < MaxCalls
    /\ calls' = calls + 1
    /\ ep' = e
    /\ req' = rq
    /\ max_retries' = n
    /\ cache_key' = key
    /\ attempt' = 0
    /\ invocations' = 0
    /\ sleeps' = <<>>
    /\ last' = NoResult
    /\ saved' = None
    /\ read_io' = io
    /\ prev' = None
    /\ IF lk.hit
       THEN pc' = "done" /\ ret' = Returned(lk.kind, lk.value)
       ELSE IF n > 0
            THEN pc' = "attempt" /\ ret' = NoReturn
            ELSE pc' = "done" /\ ret' = EmptyLoop(e, rq)
    /\ UNCHANGED <<store, files, derive, tasks, stores, sess, util>>

grade_answer_with_ai ==
    \E rq \in GradeRequests, n \in 0..MaxRetries, io \in ReadIO :
        LET key == grade_answer_key(rq)
        IN /\ pc = "idle"
           /\ CanFault(store, key, io)
           /\ Begin("grade_answer_with_ai", rq, n, PyTuple(key), io,
                 grading_lookup(get_from_cache(store, key, io)))

grade_answer_with_ocr_and_ai ==
    \E rq \in OcrGradeRequests, n \in 0..MaxRetries, io \in ReadIO :
        LET key == grade_answer_ocr_key(rq)
        IN /\ pc = "idle"
           /\ CanFault(store, key, io)
           /\ Begin("grade_answer_with_ocr_and_ai", rq, n, PyTuple(key), io,
                 grading_lookup(get_from_cache(store, key, io)))

generate_student_report_with_ai ==
    \E rq \in ReportRequests, n \in 0..MaxRetries, io \in ReadIO :
        LET key == performance_report_key(rq)
        IN /\ pc = "idle"
           /\ IF Encodable(rq.question_details)
              THEN /\ CanFault(store, key, io)
                   /\ Begin("generate_student_report_with_ai", rq, n, PyTuple(key), io,
                         student_report_lookup(get_from_cache(store, key, io)))
              ELSE /\ io = "ok"
                   /\ Begin("generate_student_report_with_ai", rq, n, None, "none", Miss)

generate_class_overview_with_ai ==
    \E rq \in OverviewRequests, n \in 0..MaxRetries, io \in ReadIO :
        LET key == class_overview_key(rq)
        IN /\ pc = "idle"
           /\ CanFault(store, key, io)
           /\ Begin("generate_class_overview_with_ai", rq, n, PyTuple(key), io,
                 artifact_lookup(get_from_cache(store, key, io), "report", files))

generate_question_insights_with_ai ==
    \E rq \in InsightsRequests, n \in 0..MaxRetries, io \in ReadIO :
        LET key == question_insights_key(rq)
        IN /\ pc = "idle"
           /\ CanFault(store, key, io)
           /\ Begin("generate_question_insights_with_ai", rq, n, PyTuple(key), io,
                 artifact_lookup(get_from_cache(store, key, io), "report_text", files))

extract_marking_scheme_with_ai ==
    \E rq \in ExtractRequests, n \in 0..MaxRetries, io \in ReadIO :
        LET key == marking_scheme_key(rq)
        IN /\ pc = "idle"
           /\ CanFault(store, key, io)
           /\ Begin("extract_marking_scheme_with_ai", rq, n, PyTuple(key), io,
                 marking_scheme_lookup(get_from_cache(store, key, io)))

verify_marking_scheme_with_ai ==
    \E rq \in VerifyRequests, n \in 0..MaxRetries :
        Begin("verify_marking_scheme_with_ai", rq, n, None, "none", Miss)

moderate_grades_with_ai ==
    \E rq \in ModerationRequests, n \in 0..MaxRetries :
        Begin("moderate_grades_with_ai", rq, n, None, "none", Miss)

\* ocr_agent/agent.py lines 66-76: without image data the call returns ""
perform_ocr_with_ai ==
    \E rq \in OcrRequests, n \in 0..MaxRetries :
        LET image_data ==
                IF Truthy(rq.image_path) /\ ~Truthy(rq.image_data)
                THEN IF rq.image_path.v \in ReadableImages
                     THEN ImageBytes(rq.image_path.v) ELSE None
                ELSE rq.image_data
        IN Begin("perform_ocr_with_ai", rq, n, None, "none",
                 IF Truthy(image_data) THEN Miss ELSE Early(PyStr("")))


\* annotation_agent/agent.py lines 110-116: an unreadable image ends the call
extract_annotations_with_ai ==
    \E rq \in AnnotationRequests, n \in 0..MaxRetries :
        Begin("extract_annotations_with_ai", rq, n, None, "none",
              IF rq.image_path \in ReadableImages THEN Miss ELSE Early(EmptyBoxes))

\* the bookkeeping every loop iteration shares: s is the iteration's verdict
Iterate(r, s) ==
    /\ invocations' = invocations + 1
    /\ last' = r
    /\ files' = files \cup r.creates
    /\ sleeps' = IF s.sleep > 0 THEN Append(sleeps, s.sleep) ELSE sleeps
    /\ attempt' = IF s.ctl = "continue" THEN attempt + 1 ELSE attempt
    /\ UNCHANGED <<ep, req, max_retries, cache_key, read_io, prev, calls, derive,
                   tasks, stores, sess, util>>

\* one iteration of run_agent_with_retry and, when it ends the loop, the rest
\* of the entry point: sanitize, save to the cache and return, or the except
\* branch
run_agent_with_retry ==
    /\ pc = "attempt"
    /\ ep \in RunAgentEntryPoints
    /\ \E r \in RemoteResults(ep) :
        LET s == run_agent_attempt(OutputType(ep), attempt, max_retries, r)
        IN /\ Iterate(r, s)
           /\ CASE s.ctl = "continue" -> UNCHANGED <<pc, ret, store, saved>>
                [] s.ctl = "return" ->
                    /\ pc' = "done"
                    /\ IF Truthy(cache_key)
                       THEN \E io \in WriteIO :
                            LET data == PayloadOf(ep, req, s.value)
                            IN /\ store' = save_to_cache(store, cache_key.v, data, io)
                               /\ saved' = [data |-> data, io |-> io]
                               /\ ret' = IF save_raises(io)
                                         THEN OnFailure(ep, req)
                                         ELSE Returned("computed",
                                                       ReturnOf(ep, req, s.value))
                       ELSE /\ ret' = Returned("computed", ReturnOf(ep, req, s.value))
                            /\ UNCHANGED <<store, saved>>
                [] OTHER ->
                    /\ pc' = "done"
                    /\ ret' = OnFailure(ep, req)
                    /\ UNCHANGED <<store, saved>>

\* one iteration of the loop of moderate_grades_with_ai; the fallback follows
\* the last iteration
moderation_loop ==
    /\ pc = "attempt"
    /\ ep = "moderate_grades_with_ai"
    /\ \E r \in RemoteResults(ep) :
        LET s == moderation_attempt(req.entries, req.total_marks, attempt, max_retries, r)
        IN /\ Iterate(r, s)
           /\ IF s.ctl = "return"
              THEN pc' = "done" /\ ret' = Returned("computed", s.value)
              ELSE IF attempt + 1 < max_retries
                   THEN UNCHANGED <<pc, ret>>
                   ELSE /\ pc' = "done"
                        /\ ret' = Returned("fallback",
                                           PyList(moderation_fallback(req.entries)))
           /\ UNCHANGED <<store, saved>>

\* one iteration of the loop of perform_ocr_with_ai; `return ""` follows the
\* last iteration
ocr_loop ==
    /\ pc = "attempt"
    /\ ep = "perform_ocr_with_ai"
    /\ \E r \in OcrResults :
        LET s == ocr_attempt(attempt, max_retries, r)
        IN /\ Iterate(r, s)
           /\ IF s.ctl = "return"
              THEN /\ pc' = "done"
                   /\ ret' = Returned(IF r.kind = "raise" THEN "fallback" ELSE "computed",
                                      s.value)
              ELSE IF attempt + 1 < max_retries
                   THEN UNCHANGED <<pc, ret>>
                   ELSE pc' = "done" /\ ret' = Returned("fallback", PyStr(""))
           /\ UNCHANGED <<store, saved>>

\* one iteration of the loop of extract_annotations_with_ai
annotation_loop ==
    /\ pc = "attempt"
    /\ ep = "extract_annotations_with_ai"
    /\ \E r \in RemoteResults(ep) :
        LET s == annotation_attempt(attempt, max_retries, r)
        IN /\ Iterate(r, s)
           /\ CASE s.ctl = "return" ->
                    pc' = "done" /\ ret' = Returned("computed", s.value)
                [] s.ctl = "fallback" ->
                    pc' = "done" /\ ret' = Returned("fallback", s.value)
                [] OTHER -> UNCHANGED <<pc, ret>>
           /\ UNCHANGED <<store, saved>>

\* the caller takes the value: nothing of the call outlives it but the cache
\* and the files
Return ==
    /\ pc = "done"
    /\ pc' = "idle"
    /\ ep' = "none"
    /\ req' = None
    /\ max_retries' = 0
    /\ cache_key' = None
    /\ attempt' = 0
    /\ invocations' = 0
    /\ sleeps' = <<>>
    /\ last' = NoResult
    /\ saved' = None
    /\ ret' = NoReturn
    /\ read_io' = "none"
    /\ prev' = IF ret.kind = "computed" /\ saved # None /\ saved.io = "ok"
               THEN [ep |-> ep, req |-> req, data |-> saved.data,
                     value |-> ret.value]
               ELSE None
    /\ UNCHANGED <<store, files, calls, derive, tasks, stores, sess, util>>

\* the environment removes an image file; the calls look at the files only
\* in their cache lookup, so removals while a call runs are taken together
\* with those after it
DeleteFile ==
    /\ pc = "idle"
    /\ \E p \in files : files' = files \ {p}
    /\ UNCHANGED <<store, pc, ep, req, max_retries, cache_key, attempt,
                   invocations, sleeps, last, saved, ret, read_io, prev, calls,
                   derive, tasks, stores, sess, util>>

Next ==
    \/ grade_answer_with_ai
    \/ grade_answer_with_ocr_and_ai
    \/ generate_student_report_with_ai
    \/ generate_class_overview_with_ai
    \/ generate_question_insights_with_ai
    \/ extract_marking_scheme_with_ai
    \/ verify_marking_scheme_with_ai
    \/ moderate_grades_with_ai
    \/ perform_ocr_with_ai
    \/ extract_annotations_with_ai
    \/ run_agent_with_retry
    \/ moderation_loop
    \/ ocr_loop
    \/ annotation_loop
    \/ Return
    \/ DeleteFile

Spec == Init /\ [][Next]_vars

-----------------------------------------------------------------------------
(* Properties of the calls                                                 *)

KeyOfCall(e, rq) ==
    CASE e = "grade_answer_with_ai" -> grade_answer_key(rq)
      [] e = "grade_answer_with_ocr_and_ai" -> grade_answer_ocr_key(rq)
      [] e = "generate_student_report_with_ai" -> performance_report_key(rq)
      [] e = "generate_class_overview_with_ai" -> class_overview_key(rq)
      [] e = "generate_question_insights_with_ai" -> question_insights_key(rq)
      [] OTHER -> marking_scheme_key(rq)

ArtifactEntryPoints ==
    {"generate_class_overview_with_ai", "generate_question_insights_with_ai"}

\* the image files a stored payload refers to
ReferencedImages(payload) ==
    IF payload.t = "dict" /\ "infograph_image_path" \in DOMAIN payload.v
       /\ payload.v.infograph_image_path.t = "str"
       /\ payload.v.infograph_image_path.v \notin FailureMarkers \cup {""}
    THEN {payload.v.infograph_image_path.v}
    ELSE {}

\* the cache holds an entry for the request, and the image it refers to exists
ValidEntry(e, rq, st, fs) ==
    /\ KeyOfCall(e, rq) \in DOMAIN st
    /\ st[KeyOfCall(e, rq)] # Truncated
    /\ e \in ArtifactEntryPoints =>
            ReferencedImages(json_load(st[KeyOfCall(e, rq)])) \subseteq fs

\* a call of a cached entry point starts and reads the cache without a fault
CachedCallStarts ==
    pc = "idle" /\ pc' # "idle" /\ ep' \in CachedEntryPoints /\ read_io' = "ok"

\* the call repeats the request of the call before, which computed a result
\* and stored it
RepeatsStoredCall ==
    /\ prev # None
    /\ prev.ep = ep'
    /\ prev.req = req'
    /\ ReferencedImages(prev.data) \subseteq files

\* C1: a call of a cached entry point that finds a valid entry for its key
\* ends at once with the cached value: it never enters the retry loop and
\* runs the remote agent zero times; so does a second call with the request
\* of a first call that computed and stored its result.
C1_NoRemoteOnHit ==
    [][(CachedCallStarts /\ (ValidEntry(ep', req', store, files) \/ RepeatsStoredCall))
          => (pc' = "done" /\ ret'.kind = "hit" /\ invocations' = 0 /\ attempt' = 0
              /\ last' = NoResult)]_vars

C1_Witness ==
    /\ pc = "done"
    /\ calls = 2
    /\ ep \in CachedEntryPoints
    /\ ValidEntry(ep, req, store, files)
    /\ ret.kind = "hit"
    /\ invocations = 0

\* the run of the remote agent failed: it raised, or left nothing usable
Failed(r) == r.kind = "raise" \/ (r.kind = "state" /\ r.output \in BadOutputs)

GradingFallback(rq) ==
    PyObj("GradingResult",
          [extracted_text |-> rq.answer, similarity_score |-> 0, mark |-> 0,
           reasoning |-> "Error: Grading failed - error"])

\* C2: inside the loop every iteration has run the remote agent once; a call
\* with max_retries = n >= 1 whose runs all failed has run it exactly n times,
\* and grade_answer_with_ai then returns its fallback GradingResult (mark 0,
\* similarity_score 0) and does not raise.
C2_ExhaustedAfterNAttempts ==
    /\ (pc = "attempt" /\ ep \in RunAgentEntryPoints)
            => (invocations = attempt /\ attempt < max_retries)
    /\ (pc = "done" /\ ep \in RunAgentEntryPoints /\ max_retries >= 1 /\ Failed(last))
            => /\ invocations = max_retries
               /\ ep = "grade_answer_with_ai"
                    => ret = [kind |-> "fallback", value |-> GradingFallback(req)]

C2_Witness ==
    /\ pc = "done"
    /\ ep = "grade_answer_with_ai"
    /\ max_retries = 3
    /\ invocations = 3
    /\ last = Raise
    /\ ret.kind = "fallback"
    /\ ret.value.v.mark = 0

FallbackType(e) ==
    CASE e \in {"grade_answer_with_ai", "grade_answer_with_ocr_and_ai"} -> "GradingResult"
      [] e \in {"generate_student_report_with_ai", "perform_ocr_with_ai"} -> "str"
      [] e = "generate_class_overview_with_ai" -> "ClassOverviewResponse"
      [] e = "generate_question_insights_with_ai" -> "QuestionAnalysisResponse"
      [] e = "verify_marking_scheme_with_ai" -> "tuple"
      [] e = "moderate_grades_with_ai" -> "list"
      [] OTHER -> "BoundingBoxResponse"

\* the call ran the remote agent and no run gave a result
Exhausted == pc = "done" /\ invocations >= 1 /\ ret.kind \notin {"hit", "early", "computed"}

StructuredEntryPoints ==
    RunAgentEntryPoints \cup {"moderate_grades_with_ai", "extract_annotations_with_ai"}

\* a moderation response with a number of items other than the entries'
WrongLength(e, rq, r) ==
    /\ e = "moderate_grades_with_ai"
    /\ r.kind = "state"
    /\ r.output \notin BadOutputs
    /\ Len(r.output.v.items) # Len(rq.entries)

\* the run left a result that fails validation
Invalid(e, rq, r) ==
    (r.kind = "state" /\ r.output \in BadOutputs) \/ WrongLength(e, rq, r)

\* C4: when the latest run of the remote agent left a result that fails
\* validation (no or empty output, output not of or convertible to the
\* output type, a list of the wrong length), the call has returned no
\* success and has saved nothing to the cache; it is either still in its
\* loop with the attempt counted, or it ended after all max_retries attempts.
C4_InvalidNeverAccepted ==
    (pc \in {"attempt", "done"} /\ ep \in StructuredEntryPoints /\ Invalid(ep, req, last))
        => /\ ret.kind # "computed"
           /\ saved = None
           /\ pc = "attempt" => (attempt = invocations /\ attempt < max_retries)
           /\ pc = "done" => invocations = max_retries

C4_Witness ==
    /\ pc = "attempt"
    /\ ep = "grade_answer_with_ai"
    /\ last.kind = "state"
    /\ last.output = PyDict([unexpected |-> "x"])
    /\ attempt = 2
    /\ saved = None

GradingEntryPoints == {"grade_answer_with_ai", "grade_answer_with_ocr_and_ai"}

\* x forced into [0, hi]
Forced(x, hi) == IF x < 0 THEN 0 ELSE IF x > hi THEN hi ELSE x

\* mark and similarity_score of d are those of raw forced into range
ClampedFrom(d, raw, total_marks) ==
    /\ d.mark = Forced(raw.mark, Float(total_marks))
    /\ d.similarity_score = Forced(raw.similarity_score, Float(1))
    /\ 0 <= d.mark /\ d.mark <= Float(total_marks)
    /\ 0 <= d.similarity_score /\ d.similarity_score <= Float(1)

\* C5: the GradingResult a grading call computed has the raw mark forced
\* into [0, total_marks] and the raw similarity_score into [0, 1], and the
\* data handed to save_to_cache, and the entry then in the cache, carry the
\* forced values.
C5_ClampedBeforeReturnAndStore ==
    (pc = "done" /\ ep \in GradingEntryPoints /\ ret.kind = "computed")
        => /\ ClampedFrom(ret.value.v, last.output.v, req.total_marks)
           /\ saved # None
           /\ ClampedFrom(saved.data.v, last.output.v, req.total_marks)
           /\ saved.io = "ok" =>
                ClampedFrom(get_from_cache(store, cache_key.v, "ok").v,
                            last.output.v, req.total_marks)

C5_Witness ==
    /\ pc = "done"
    /\ ep = "grade_answer_with_ai"
    /\ ret.kind = "computed"
    /\ req.total_marks = 5
    /\ last.output.v.mark = 75
    /\ ret.value.v.mark = 50
    /\ saved.io = "ok"
    /\ saved.data.v.mark = 50

\* C8 as stated: what get_from_cache reads back after a save without a fault
\* equals the data that was saved.
C8_RoundTripEqual ==
    (pc = "done" /\ saved # None /\ saved.io = "ok")
        => get_from_cache(store, cache_key.v, "ok") = saved.data

\* what json.load gives for data that json.dump wrote: a tuple comes back as
\* the list of its elements
ReadBack(data) == IF data.t = "tuple" THEN PyList(data.v) ELSE data

\* C8: after a save without a fault get_from_cache reads back a dict equal
\* to the dict that was saved, and for the (questions, guide) tuple of
\* marking-scheme extraction the list [questions, guide]; this lasts until
\* the next call starts.
C8_RoundTripUpToTuple ==
    /\ (pc = "done" /\ saved # None /\ saved.io = "ok")
            => get_from_cache(store, cache_key.v, "ok") = ReadBack(saved.data)
    /\ (pc = "idle" /\ prev # None)
            => get_from_cache(store, KeyOfCall(prev.ep, prev.req), "ok")
                    = ReadBack(prev.data)

C8_Witness ==
    /\ pc = "done"
    /\ ep = "extract_marking_scheme_with_ai"
    /\ saved # None
    /\ saved.io = "ok"
    /\ saved.data.t = "tuple"
    /\ get_from_cache(store, cache_key.v, "ok") = PyList(saved.data.v)

\* the cache holds an entry for the request that refers to an image file
\* that does not exist
EntryWithMissingImage(e, rq, st, fs) ==
    /\ KeyOfCall(e, rq) \in DOMAIN st
    /\ ReferencedImages(json_load(st[KeyOfCall(e, rq)])) \ fs # {}

\* C9: a call of generate_class_overview_with_ai or
\* generate_question_insights_with_ai that finds an entry whose image file
\* does not exist does not return the entry: it is a miss, and with
\* max_retries >= 1 the call enters the loop that runs the remote agent.
C9_MissingImageIsMiss ==
    [][(pc = "idle" /\ pc' # "idle" /\ ep' \in ArtifactEntryPoints
        /\ EntryWithMissingImage(ep', req', store, files))
          => /\ ret'.kind # "hit"
             /\ max_retries' >= 1 => (pc' = "attempt" /\ ret' = NoReturn)]_vars

C9_Witness ==
    /\ calls = 2
    /\ ep = "generate_class_overview_with_ai"
    /\ EntryWithMissingImage(ep, req, store, files)
    /\ read_io = "ok"
    /\ invocations = 1
    /\ last = Raise

\* C10: a call of moderate_grades_with_ai with N entries returns N items:
\* the items of one remote response of N items, each mark forced into
\* [0, total_marks], or the fallback built from the entries; a response of
\* another length is not returned, and the call goes on to the next attempt
\* or, after max_retries attempts, to the fallback.
C10_ExactlyNItems ==
    (ep = "moderate_grades_with_ai" /\ pc \in {"attempt", "done"})
        => /\ pc = "done" =>
                /\ ret.value.t = "list"
                /\ Len(ret.value.v) = Len(req.entries)
                /\ ret.kind = "computed" =>
                        /\ Len(last.output.v.items) = Len(req.entries)
                        /\ \A i \in DOMAIN ret.value.v :
                                ret.value.v[i] =
                                    [last.output.v.items[i] EXCEPT
                                        !.moderated_mark = Forced(@, Float(req.total_marks))]
                /\ ret.kind # "computed" =>
                        \A i \in DOMAIN ret.value.v :
                            /\ ret.value.v[i].moderated_mark = req.entries[i].mark
                            /\ ret.value.v[i].note = "moderation_error"
           /\ WrongLength(ep, req, last) =>
                /\ ret.kind # "computed"
                /\ pc = "done" => invocations = max_retries

C10_Witness ==
    /\ pc = "done"
    /\ ep = "moderate_grades_with_ai"
    /\ Len(req.entries) = 2
    /\ WrongLength(ep, req, last)
    /\ invocations = 3
    /\ ret.kind = "fallback"
    /\ Len(ret.value.v) = 2

\* the call derives its key from a parameter json.dumps cannot encode
NotSerializableCall ==
    pc \in {"attempt", "done"} /\ ep = "grade_answer_with_ai" /\ req.numpy

GradeParamsText(rq) ==
    << <<"model", <<"'", "gemini-3-flash-preview", "'">> >>,
       <<"question", <<"'", rq.question, "'">> >>,
       <<"answer", <<"'", rq.answer, "'">> >>,
       <<"scheme", <<"'", rq.scheme, "'">> >>,
       <<"marks", <<"np.int64(", ToString(rq.total_marks), ")">> >>,
       <<"version", <<"'", "2.0", "'">> >> >>

WriteFaulted == pc = "done" /\ saved # None /\ saved.io # "ok"

\* C12: a call whose write to the cache fails still returns the result it
\* computed: the value is the computed one (for a grading call, the raw marks
\* forced into range), not a fallback and not an exception.
C12_WriteFailureNonFatal ==
    WriteFaulted
        => /\ ret.kind = "computed"
           /\ ~Failed(last)
           /\ ep \in GradingEntryPoints
                => ClampedFrom(ret.value.v, last.output.v, req.total_marks)
           /\ ep = "generate_student_report_with_ai"
                => ret.value = PyStr(last.output.v.report_text)

C12_Witness ==
    /\ WriteFaulted
    /\ ep = "grade_answer_with_ai"
    /\ cache_key.v \notin DOMAIN store
    /\ last.output.v.mark = 75
    /\ ret.value.v.mark = 50

\* a call of a cached entry point starts
CachedStart == pc = "idle" /\ pc' # "idle" /\ ep' \in CachedEntryPoints

\* the lookup of the starting call reads nothing: deriving the key raised
\* (the call has no key), the read faulted, or there is no file for the key
NothingRead ==
    \/ cache_key' = None
    \/ read_io' = "error"
    \/ cache_key'.v \notin DOMAIN store

\* the running call had no key, or its read of the cache faulted
LookupFaulted == ep \in CachedEntryPoints /\ (cache_key = None \/ read_io = "error")

\* C13: a lookup that reads nothing (no file, a read that faults, a key whose
\* derivation raised) is a miss: the call is not a hit and goes on to the
\* retry loop like on any miss; every iteration of a call whose lookup
\* faulted runs the remote agent, and such a call ends in its failure value
\* only when the remote run failed, in the computed value otherwise.
C13_ReadFaultIsMiss ==
    [][/\ (CachedStart /\ NothingRead)
            => /\ ret'.kind # "hit"
               /\ invocations' = 0
               /\ IF max_retries' > 0
                  THEN pc' = "attempt" /\ ret' = NoReturn
                  ELSE pc' = "done" /\ ret' = EmptyLoop(ep', req')
       /\ (pc = "attempt" /\ LookupFaulted)
            => /\ invocations' = invocations + 1
               /\ pc' = "done"
                    => IF Failed(last')
                       THEN ret'.kind \in {"fallback", "raised"}
                       ELSE ret'.kind = "computed"]_vars

C13_Witness ==
    /\ pc = "done"
    /\ ep = "generate_class_overview_with_ai"
    /\ read_io = "error"
    /\ cache_key.v \in DOMAIN store
    /\ ReferencedImages(json_load(store[cache_key.v])) \subseteq files
    /\ invocations = 1
    /\ ret.kind = "computed"

\* the loop goes from one iteration to the next
NextAttempt == pc = "attempt" /\ pc' = "attempt" /\ attempt' = attempt + 1

\* C14: whenever an attempt fails and attempts remain, the call sleeps for
\* the backoff delay 2 ** attempt before the next attempt starts, whatever
\* the failure was: an exception, an empty response or an invalid one.
C14_SleepBeforeEveryRetry ==
    [][NextAttempt => sleeps' = Append(sleeps, 2 ^ attempt)]_vars

\* a call with the default max_retries = 3 has used up its attempts
DefaultExhausted == Exhausted /\ max_retries = 3 /\ invocations = 3

\* C15 as stated: the delays of a call with the default three attempts, all
\* of which fail, are 1, 2 and 4 seconds.
C15_DelaysOneTwoFour == DefaultExhausted => sleeps = <<1, 2, 4>>

\* C15: an attempt that raises while attempts remain is followed by a sleep
\* of 2 ** attempt seconds, the step that ends the call sleeps nothing, and
\* so a call with the default three attempts that all fail has slept at most
\* <<1, 2>>: 1 after the first attempt, 2 after the second, nothing after
\* the third.
C15_DelaysOneTwo ==
    [][/\ (NextAttempt /\ last'.kind = "raise") => sleeps' = Append(sleeps, 2 ^ attempt)
       /\ (pc = "attempt" /\ pc' = "done") => sleeps' = sleeps
       /\ DefaultExhausted' => sleeps' \in {<<>>, <<1>>, <<2>>, <<1, 2>>}
       /\ (DefaultExhausted' /\ Len(sleeps') = 2 /\ last'.kind = "raise")
            => sleeps' = <<1, 2>>]_vars

C15_Witness ==
    /\ DefaultExhausted
    /\ ep = "grade_answer_with_ai"
    /\ last.kind = "raise"
    /\ sleeps = <<1, 2>>
    /\ ret = Returned("fallback", GradingFallback(req))

\* the text a returned value carries: the reasoning of a grading, the report
MainText(e, x) ==
    CASE e \in GradingEntryPoints -> x.v.reasoning
      [] e = "generate_student_report_with_ai" -> x.v
      [] "report" \in DOMAIN x.v -> x.v.report
      [] OTHER -> x.v.report_text

\* the cached entry points whose except branch returns a value
FallbackEntryPoints == CachedEntryPoints \ {"extract_marking_scheme_with_ai"}

\* the call ends in its except branch
EndsInFailure == pc = "attempt" /\ pc' = "done" /\ ret'.kind \in {"fallback", "raised"}

\* C20: a call that ends in the fallback (or re-raises) leaves the cache
\* directory as it was and has called save_to_cache not at all; the only step
\* that changes the directory is the save of a call whose last run of the
\* remote agent gave a validated result, which the call returns as computed;
\* and no hit returns the fallback text of its entry point.
C20_OnlySuccessStores ==
    [][/\ EndsInFailure => (store' = store /\ saved' = None)
       /\ store' # store
            => /\ pc = "attempt" /\ pc' = "done"
               /\ ret'.kind = "computed"
               /\ ~Failed(last')
               /\ saved' # None /\ saved'.io = "ok"
               /\ DOMAIN store' = DOMAIN store \cup {cache_key.v}
       /\ (pc' = "done" /\ ret'.kind = "hit" /\ ep' \in FallbackEntryPoints)
            => MainText(ep', ret'.value) # MainText(ep', OnFailure(ep', req').value)]_vars

\* a second call used up three attempts and returned the fallback: the entry
\* of the first call is all the directory holds
C20_Witness ==
    /\ pc = "done"
    /\ calls = 2
    /\ ep = "grade_answer_with_ai"
    /\ invocations = 3
    /\ ret = Returned("fallback", GradingFallback(req))
    /\ saved = None
    /\ cache_key.v \notin DOMAIN store
    /\ Cardinality(DOMAIN store) = 1

\* one call from its start to its end
NextCall ==
    \/ grade_answer_with_ai
    \/ grade_answer_with_ocr_and_ai
    \/ generate_student_report_with_ai
    \/ generate_class_overview_with_ai
    \/ generate_question_insights_with_ai
    \/ extract_marking_scheme_with_ai
    \/ verify_marking_scheme_with_ai
    \/ moderate_grades_with_ai
    \/ perform_ocr_with_ai
    \/ extract_annotations_with_ai
    \/ run_agent_with_retry
    \/ moderation_loop
    \/ ocr_loop
    \/ annotation_loop

\* every attempt comes to an end: a call inside a retry loop takes its next
\* iteration
SpecCall ==
    /\ Init /\ [][NextCall]_vars
    /\ WF_vars(run_agent_with_retry)
    /\ WF_vars(moderation_loop)
    /\ WF_vars(ocr_loop)
    /\ WF_vars(annotation_loop)

\* the attempt gave no result: the run raised, left an output that fails
\* validation, or (OCR) gave no text
AttemptFailed(e, rq, r) ==
    \/ r.kind = "raise"
    \/ Invalid(e, rq, r)
    \/ (r.kind = "text" /\ r.text = "")

\* the call ended with the result of an attempt
Succeeded ==
    pc = "done" /\ ret.kind = "computed" /\ invocations >= 1
    /\ ~AttemptFailed(ep, req, last)

\* the call ended after max_retries attempts, none of which gave a result
AttemptsUsedUp ==
    /\ pc = "done"
    /\ ret.kind \in {"fallback", "raised", "none"}
    /\ invocations = max_retries
    /\ max_retries >= 1 => AttemptFailed(ep, req, last)

\* the call ended before its loop: a cache hit, or no input to work on
EndedEarly == pc = "done" /\ ret.kind \in {"hit", "early"} /\ invocations = 0

\* C21: a call inside its retry loop ends; a call that has ended was answered
\* before the loop, or succeeded in an attempt, or used up max_retries
\* attempts that all failed; a call never makes more than max_retries
\* attempts, and a call that is still in the loop has had no success yet.
C21_TerminatesSucceededOrExhausted ==
    /\ (pc = "attempt") ~> (pc = "done")
    /\ [](pc = "done" => (EndedEarly \/ Succeeded \/ AttemptsUsedUp))
    /\ [](invocations <= max_retries)
    /\ [](pc = "attempt" => (attempt < max_retries /\ ret = NoReturn
                             /\ (invocations >= 1 => AttemptFailed(ep, req, last))))

C21_Witness ==
    /\ AttemptsUsedUp
    /\ ep = "perform_ocr_with_ai"
    /\ max_retries = 3
    /\ last = Text("")
    /\ ret = Returned("fallback", PyStr(""))

\* C22: a call leaves its loop after a failed attempt only when that attempt
\* was the last of its max_retries; after a failed attempt with attempts
\* remaining the call is in the loop again with the next attempt, whatever
\* the failure was: an exception of the remote run, the ValidationError of
\* the output type, the ValueError of a wrong length or of a missing output.
C22_EveryErrorRetried ==
    /\ (pc = "done" /\ invocations >= 1 /\ AttemptFailed(ep, req, last))
            => (invocations = max_retries /\ attempt >= max_retries - 1)
    /\ (pc = "attempt" /\ invocations >= 1)
            => (AttemptFailed(ep, req, last) /\ attempt = invocations
                /\ attempt < max_retries)

\* the annotation output failed validation twice (ValueError) and the third
\* attempt is up
C22_Witness ==
    /\ pc = "attempt"
    /\ ep = "extract_annotations_with_ai"
    /\ max_retries = 3
    /\ attempt = 2
    /\ last = State(PyDict([unexpected |-> "x"]))
    /\ sleeps = <<1, 2>>

\* a call of an artifact entry point starts and finds an entry whose image
\* file does not exist
FindsMissingImage ==
    /\ pc = "idle" /\ pc' # "idle"
    /\ ep' \in ArtifactEntryPoints
    /\ EntryWithMissingImage(ep', req', store, files)

\* the call saves the result it computed
SavesComputed ==
    /\ pc = "attempt" /\ pc' = "done"
    /\ ret'.kind = "computed"
    /\ saved' # None /\ saved'.io = "ok"

\* C24: the lookup that finds the image of an entry missing leaves the cache
\* directory as it is; no step removes a file from the directory, and the
\* text of a file changes only in the step in which a call saves the result
\* it computed under that key, after which the file holds that result.
C24_LogicalInvalidationOnly ==
    [][/\ FindsMissingImage => store' = store
       /\ \A k \in DOMAIN store :
            /\ k \in DOMAIN store'
            /\ store'[k] # store[k] => (SavesComputed /\ cache_key.v = k)
       /\ SavesComputed => store'[cache_key.v] = json_dump(saved'.data)]_vars

\* the second call found the image of the entry missing and used up its
\* attempts: the entry of the first call is still there
C24_Witness ==
    /\ pc = "done"
    /\ calls = 2
    /\ ep = "generate_class_overview_with_ai"
    /\ read_io = "ok"
    /\ ret.kind = "fallback"
    /\ invocations = 3
    /\ files = {}
    /\ EntryWithMissingImage(ep, req, store, files)

\* C28: a sleep happens only between two attempts of a call: the step that
\* sleeps is the k-th attempt, which failed and was not the last one, and it
\* sleeps 2^(k-1) seconds; the step that ends the call, by a result, a
\* fallback or a raise, sleeps nothing, and so a call that ended after n
\* attempts has slept at most n-1 times.
C28_NoSleepAfterLastAttempt ==
    [][/\ sleeps' # sleeps
            => /\ pc = "attempt" /\ pc' = "attempt"
               /\ invocations' = invocations + 1
               /\ invocations' < max_retries
               /\ AttemptFailed(ep, req, last')
               /\ sleeps' = Append(sleeps, 2 ^ (invocations' - 1))
       /\ (pc = "attempt" /\ pc' = "done") => sleeps' = sleeps
       /\ pc' = "done"
            => Len(sleeps') <= (IF invocations' = 0 THEN 0 ELSE invocations' - 1)]_vars

\* a moderation whose three attempts raised has slept 1 and 2 seconds and
\* returned the original marks right after the third
C28_Witness ==
    /\ pc = "done"
    /\ ep = "moderate_grades_with_ai"
    /\ max_retries = 3
    /\ invocations = 3
    /\ last.kind = "raise"
    /\ sleeps = <<1, 2>>
    /\ ret.kind = "fallback"

\* the call that starts is answered from the entry that the call before,
\* of the same entry point and with the same request, computed and stored
HitOnEntryOfCallBefore ==
    /\ pc = "idle"
    /\ prev # None
    /\ pc' = "done"
    /\ ret'.kind = "hit"
    /\ ep' = prev.ep
    /\ req' = prev.req

\* C29: a call of a cached entry point that is answered from the cache
\* returns the value that the call which computed and stored the entry
\* returned to its own caller: the same type and the same fields.
C29_HitReturnsWhatMissReturned ==
    [][HitOnEntryOfCallBefore
        => /\ ret'.value.t = prev.value.t
           /\ ret'.value = prev.value]_vars


\* mark and similarity_score of a result lie in [0, total_marks] and [0, 1]
InRange(d, total_marks) ==
    /\ 0 <= d.mark /\ d.mark <= Float(total_marks)
    /\ 0 <= d.similarity_score /\ d.similarity_score <= Float(1)

GradingRequestsOf(e) ==
    IF e = "grade_answer_with_ai" THEN GradeRequests ELSE OcrGradeRequests

\* C30: a grading call that has ended, whether it was answered from the
\* cache, computed its result or fell back, has returned a GradingResult
\* with 0 <= mark <= total_marks of its own request and 0 <= similarity_score
\* <= 1, whatever calls went before; and the key under which a call found
\* its answer in the cache is the key of no request with another
\* total_marks.
C30_GradingResultInRange ==
    (pc = "done" /\ ep \in GradingEntryPoints)
        => /\ ret.kind \in {"hit", "computed", "fallback"}
           /\ ret.value.t = "GradingResult"
           /\ InRange(ret.value.v, req.total_marks)
           /\ ret.kind = "hit"
                => \A rq \in GradingRequestsOf(ep) :
                        rq.total_marks # req.total_marks
                            => KeyOfCall(ep, rq) # cache_key.v

\* the first call graded the answer out of 5 and stored the mark 5.0 for a
\* raw 7.5; the second call, for the same answer out of 0, does not hit that
\* entry and returns 0 for the same raw mark
C30_Witness ==
    /\ calls = 2
    /\ pc = "done"
    /\ ep = "grade_answer_with_ai"
    /\ req.total_marks = 0
    /\ \E rq \in GradeRequests :
        /\ rq.total_marks = 5
        /\ KeyOfCall(ep, rq) \in DOMAIN store
        /\ store[KeyOfCall(ep, rq)].v.mark = 50
    /\ ret.kind = "computed"
    /\ last.output.v.mark = 75
    /\ ret.value.v.mark = 0

\* C31: every item that a call of moderate_grades_with_ai returns, from a
\* remote response or from the fallback, has 0 <= moderated_mark <=
\* total_marks.
C31_ModeratedMarksInRange ==
    (pc = "done" /\ ep = "moderate_grades_with_ai")
        => \A i \in DOMAIN ret.value.v :
            /\ 0 <= ret.value.v[i].moderated_mark
            /\ ret.value.v[i].moderated_mark <= Float(req.total_marks)

\* the call went past its lookups and early returns with max_retries = 0
ZeroRetriesCall ==
    pc = "done" /\ max_retries = 0 /\ ret.kind \notin {"hit", "early"}

\* C32: a call with max_retries = 0 that is not answered before its loop
\* runs the remote agent zero times and returns the fallback value of its
\* result type: it returns no None and raises nothing.
C32_ZeroRetriesFallback ==
    ZeroRetriesCall
        => /\ invocations = 0
           /\ ret.kind = "fallback"
           /\ ret.value # None

\* the image bytes the call has after lines 66-72: those passed in, or those
\* read from image_path when none were passed
OcrImageData(rq) ==
    IF Truthy(rq.image_path) /\ ~Truthy(rq.image_data)
    THEN IF rq.image_path.v \in ReadableImages
         THEN ImageBytes(rq.image_path.v) ELSE None
    ELSE rq.image_data

\* an attempt of the OCR loop that gave no text: an exception or ""
OcrAttemptFailed(r) == r.kind = "raise" \/ (r.kind = "text" /\ r.text = "")

\* C33: a call of perform_ocr_with_ai never raises and returns a string.
\* Without image bytes (none passed and none read from image_path) it
\* returns "" and runs the remote agent zero times; with image bytes it
\* returns the stripped text of the first attempt that gave a non-empty
\* text, every attempt before having failed, and "" after max_retries
\* attempts that each gave an empty response or an exception.
C33_OcrReturnsString ==
    (ep = "perform_ocr_with_ai" /\ pc \in {"attempt", "done"})
        => /\ pc = "done"
                => /\ ret.kind \in {"early", "computed", "fallback"}
                   /\ ret.value.t = "str"
           /\ ~Truthy(OcrImageData(req))
                => /\ pc = "done"
                   /\ ret = Returned("early", PyStr(""))
                   /\ invocations = 0
           /\ Truthy(OcrImageData(req))
                => /\ pc = "attempt"
                        => (invocations >= 1 => OcrAttemptFailed(last))
                   /\ pc = "done"
                        => \/ /\ ret.kind = "computed"
                              /\ invocations >= 1
                              /\ last.kind = "text"
                              /\ last.text # ""
                              /\ ret.value = PyStr(Strip(last.text))
                           \/ /\ ret = Returned("fallback", PyStr(""))
                              /\ invocations = max_retries
                              /\ invocations >= 1 => OcrAttemptFailed(last)

\* the bytes came from the caller although image_path cannot be read; two
\* attempts gave nothing and the third gave " 42 ", returned as "42"
C33_Witness ==
    /\ pc = "done"
    /\ ep = "perform_ocr_with_ai"
    /\ req.image_path = PyStr("gone.jpg")
    /\ invocations = 3
    /\ last = Text(" 42 ")
    /\ ret = Returned("computed", PyStr("42"))

\* the infograph_image_path of a stored report: None when the entry has none
StoredImagePath(entry) ==
    IF "infograph_image_path" \in DOMAIN entry.v
    THEN entry.v.infograph_image_path ELSE None

\* the path is None or a failure marker of the infographic tool
NoRealPath(path) == ~Truthy(path) \/ path.v \in FailureMarkers

\* a call of an artifact entry point has read the entry of its key and has
\* not written it: the file is as the lookup found it
ArtifactLookupDone ==
    /\ pc \in {"attempt", "done"}
    /\ ep \in ArtifactEntryPoints
    /\ read_io = "ok"
    /\ saved = None
    /\ cache_key.v \in DOMAIN store

\* C35: a class overview or question insights whose infograph_image_path is
\* None or a failure marker is stored like any other result, and a later
\* call that reads such an entry returns it as a hit without running the
\* remote agent, whatever image files exist; an entry with a real path is a
\* hit exactly when the file exists.
C35_FailureMarkerEntryIsHit ==
    /\ ArtifactLookupDone
        => LET entry == json_load(store[cache_key.v])
           IN IF NoRealPath(StoredImagePath(entry))
                 \/ StoredImagePath(entry).v \in files
              THEN /\ pc = "done"
                   /\ ret = Returned("hit", entry)
                   /\ invocations = 0
              ELSE ret.kind # "hit"
    /\ (pc = "done" /\ ep \in ArtifactEntryPoints /\ ret.kind = "computed"
        /\ saved # None /\ saved.io = "ok")
        => /\ store[cache_key.v] = json_dump(saved.data)
           /\ saved.data.v.infograph_image_path = ret.value.v.infograph_image_path

\* the second call finds the entry of the first, whose image generation had
\* failed, and returns it although no image file exists
C35_Witness ==
    /\ calls = 2
    /\ pc = "done"
    /\ ep = "generate_question_insights_with_ai"
    /\ files = {}
    /\ ret.kind = "hit"
    /\ invocations = 0
    /\ ret.value.v.infograph_image_path = PyStr("IMAGE_GENERATION_FAILED")

-----------------------------------------------------------------------------
(* get_cache_key as a pure function: two derivations side by side           *)

MaxParams == 3

CacheTypes == {"grade_answer", "ocr"}
ParamNames == {"marks", "question", "version"}
ParamValues(n) ==
    CASE n = "marks" -> {PyInt(5), PyInt(6), PyStr("5"), PyBytes("img")}
      [] n = "question" -> {PyStr("Q1")}
      [] OTHER -> {PyStr("2.0"), PyStr("3.0")}

\* the orders in which a caller can write down some of the names
Orders ==
    {s \in UNION {[1..k -> ParamNames] : k \in 0..MaxParams} :
        \A i, j \in DOMAIN s : i # j => s[i] # s[j]}

\* the **params a caller can pass
Keywords ==
    UNION {{[i \in DOMAIN s |-> <<s[i], f[i]>>] :
                f \in {g \in [DOMAIN s -> UNION {ParamValues(n) : n \in ParamNames}] :
                          \A i \in DOMAIN s : g[i] \in ParamValues(s[i])}} :
           s \in Orders}

callvars == <<store, files, pc, ep, req, max_retries, cache_key, attempt,
              invocations, sleeps, last, saved, ret, read_io, prev, calls>>

InitKey ==
    /\ store = [k \in {} |-> None]
    /\ files = {}
    /\ pc = "idle"
    /\ ep = "none"
    /\ req = None
    /\ max_retries = 0
    /\ cache_key = None
    /\ attempt = 0
    /\ invocations = 0
    /\ sleeps = <<>>
    /\ last = NoResult
    /\ saved = None
    /\ ret = NoReturn
    /\ read_io = "none"
    /\ prev = None
    /\ calls = 0
    /\ derive \in [cache_type : CacheTypes, first : Keywords, second : Keywords,
                    key1 : {None}, key2 : {None}]
    /\ tasks = None
    /\ stores = <<>>
    /\ sess = None
    /\ util = None

\* get_cache_key(cache_type, **first)
DeriveFirst ==
    /\ derive.key1 = None
    /\ derive' = [derive EXCEPT
                     !.key1 = PyTuple(get_cache_key(derive.cache_type, derive.first))]
    /\ UNCHANGED <<callvars, tasks, stores, sess, util>>

\* get_cache_key(cache_type, **second)
DeriveSecond ==
    /\ derive.key2 = None
    /\ derive' = [derive EXCEPT
                     !.key2 = PyTuple(get_cache_key(derive.cache_type, derive.second))]
    /\ UNCHANGED <<callvars, tasks, stores, sess, util>>

NextKey ==
    \/ DeriveFirst
    \/ DeriveSecond

SpecKey == InitKey /\ [][NextKey]_vars

\* the mapping a caller means by its keywords, an omitted version counting
\* as "2.0"
Mapping(p) ==
    [n \in Names(p) \cup {"version"} |->
        IF n \in Names(p) THEN Get(p, n) ELSE PyStr("2.0")]

BothDerived == derive.key1 # None /\ derive.key2 # None

Digest(key) == key.v[2]

\* the two mappings have the same names and differ in the value of exactly one
DifferInOne(p, q) ==
    /\ DOMAIN Mapping(p) = DOMAIN Mapping(q)
    /\ Cardinality({n \in DOMAIN Mapping(p) : Mapping(p)[n] # Mapping(q)[n]}) = 1

\* C6: the same cache_type and the same parameter mapping (an omitted version
\* counting as "2.0") give the same (cache_type, digest) pair, in whatever
\* order the parameters were supplied and on every path of get_cache_key,
\* the one for non-serializable parameters included.
C6_KeyOrderInsensitive ==
    (BothDerived /\ Mapping(derive.first) = Mapping(derive.second))
        => derive.key1 = derive.key2

\* C7: changing the value of one parameter, or the version string, and
\* nothing else gives a different digest.
C7_KeySensitive ==
    (BothDerived /\ DifferInOne(derive.first, derive.second))
        => Digest(derive.key1) # Digest(derive.key2)

C7_Witness ==
    /\ BothDerived
    /\ derive.first = << <<"question", PyStr("Q1")>>, <<"marks", PyInt(5)>> >>
    /\ derive.second = << <<"question", PyStr("Q1")>>, <<"marks", PyInt(6)>> >>
    /\ Digest(derive.key1) # Digest(derive.key2)

-----------------------------------------------------------------------------
(* Calls of grade_answer_with_ai as tasks of one event loop. A task runs   *)
(* from one await to the next without giving up the thread: the key        *)
(* derivation and the lookup up to the first await of the remote agent,    *)
(* and from the answer of the remote agent through sanitize, save_to_cache *)
(* and return, or through the handler into the next attempt.               *)

Tasks == {"t1", "t2"}

\* the max_retries the tasks are called with
LoopRetries == 2

\* a write can also stop after open() has emptied the file
LoopWriteIO == {"ok", "error", "partial"}

NewTask ==
    [pc |-> "new", req |-> None, cache_key |-> None, found |-> None, at |-> 0,
     attempt |-> 0, invocations |-> 0, slept |-> <<>>, last |-> NoResult,
     ret |-> NoReturn]

seqvars == <<files, pc, ep, req, max_retries, cache_key, attempt, invocations,
             sleeps, last, saved, ret, read_io, prev, calls, derive, sess, util>>

InitLoop ==
    /\ store = [k \in {} |-> None]
    /\ files = {}
    /\ pc = "idle"
    /\ ep = "none"
    /\ req = None
    /\ max_retries = 0
    /\ cache_key = None
    /\ attempt = 0
    /\ invocations = 0
    /\ sleeps = <<>>
    /\ last = NoResult
    /\ saved = None
    /\ ret = NoReturn
    /\ read_io = "none"
    /\ prev = None
    /\ calls = 0
    /\ derive = None
    /\ sess = None
    /\ util = None
    /\ tasks = [t \in Tasks |-> NewTask]
    /\ stores = <<>>

\* time.sleep() does not return the thread to the loop: while a task is in
\* it the loop runs nothing
Blocked == \E u \in Tasks : tasks[u].pc = "sleeping"

\* the task is scheduled: key, lookup (found is what get_from_cache gave, at
\* the number of saves made before it), and the return of a hit or the first
\* await of the remote agent
LoopStart(t) ==
    /\ tasks[t].pc = "new"
    /\ ~Blocked
    /\ \E rq \in GradeRequests, io \in ReadIO :
        LET key == grade_answer_key(rq)
            cached == get_from_cache(store, key, io)
            lk == grading_lookup(cached)
        IN /\ CanFault(store, key, io)
           /\ tasks' = [tasks EXCEPT ![t] =
                 [@ EXCEPT !.req = rq, !.cache_key = PyTuple(key),
                           !.found = cached, !.at = Len(stores),
                           !.pc = IF lk.hit THEN "done" ELSE "awaiting",
                           !.ret = IF lk.hit THEN Returned("hit", lk.value)
                                   ELSE NoReturn]]
    /\ UNCHANGED <<store, stores, seqvars>>

\* the remote agent has answered and the loop resumes the task
LoopResume(t) ==
    /\ tasks[t].pc = "awaiting"
    /\ ~Blocked
    /\ \E r \in RemoteResults("grade_answer_with_ai") :
        LET me == tasks[t]
            s == run_agent_attempt("GradingResult", me.attempt, LoopRetries, r)
            ran == [me EXCEPT !.invocations = @ + 1, !.last = r]
        IN CASE s.ctl = "continue" ->
                /\ tasks' = [tasks EXCEPT ![t] =
                      IF s.sleep > 0
                      THEN [ran EXCEPT !.pc = "sleeping", !.slept = Append(@, s.sleep)]
                      ELSE [ran EXCEPT !.attempt = @ + 1]]
                /\ UNCHANGED <<store, stores>>
             [] s.ctl = "return" ->
                \E io \in LoopWriteIO :
                    LET data == PayloadOf("grade_answer_with_ai", me.req, s.value)
                    IN /\ store' = save_to_cache(store, me.cache_key.v, data, io)
                       /\ stores' = Append(stores, [task |-> t, key |-> me.cache_key.v,
                                                    data |-> data, io |-> io])
                       /\ tasks' = [tasks EXCEPT ![t] =
                             [ran EXCEPT
                                !.pc = "done",
                                !.ret = IF save_raises(io)
                                        THEN OnFailure("grade_answer_with_ai", me.req)
                                        ELSE Returned("computed",
                                                 ReturnOf("grade_answer_with_ai",
                                                          me.req, s.value))]]
             [] OTHER ->
                /\ tasks' = [tasks EXCEPT ![t] =
                      [ran EXCEPT !.pc = "done",
                                  !.ret = OnFailure("grade_answer_with_ai", me.req)]]
                /\ UNCHANGED <<store, stores>>
    /\ UNCHANGED seqvars

\* a wake-up that runs the remote agent again under the same attempt number
LoopWake_same_attempt(t) ==
    /\ tasks[t].pc = "sleeping"
    /\ tasks' = [tasks EXCEPT ![t] = [@ EXCEPT !.pc = "awaiting"]]
    /\ UNCHANGED <<store, stores, seqvars>>

\* time.sleep() returns; `continue` starts the next attempt, which awaits
\* the remote agent
LoopWake(t) ==
    /\ tasks[t].pc = "sleeping"
    /\ tasks' = [tasks EXCEPT ![t] = [@ EXCEPT !.pc = "awaiting", !.attempt = @ + 1]]
    /\ UNCHANGED <<store, stores, seqvars>>

NextLoop == \E t \in Tasks : LoopStart(t) \/ LoopResume(t) \/ LoopWake(t)

SpecLoop == InitLoop /\ [][NextLoop]_vars

\* C16: while one task is in its backoff sleep, every other task that has
\* not finished can take its next step: start, or go on with the answer of
\* the remote agent.
C16_SleepBlocksOnlySleeper ==
    \A t \in Tasks, u \in Tasks :
        (tasks[t].pc = "sleeping" /\ tasks[u].pc \in {"new", "awaiting"})
            => ENABLED (LoopStart(u) \/ LoopResume(u))

\* two tasks with the same key have both computed a result and returned
Raced(t, u) ==
    /\ t # u
    /\ tasks[t].pc = "done" /\ tasks[u].pc = "done"
    /\ tasks[t].cache_key = tasks[u].cache_key
    /\ tasks[t].ret.kind = "computed" /\ tasks[u].ret.kind = "computed"

\* the task returned the sanitized output of its own last run
OwnResult(t) ==
    /\ tasks[t].invocations >= 1
    /\ ~Failed(tasks[t].last)
    /\ ClampedFrom(tasks[t].ret.value.v, tasks[t].last.output.v,
                   tasks[t].req.total_marks)

\* C17: when two tasks with the same key have both missed and computed, each
\* has run the remote agent and returned its own result, each has called
\* save_to_cache once, and the file of the key is whole: after a last save
\* without a fault it is exactly the data of that save, which is the result
\* of the task that saved last; a last save that wrote nothing leaves the file
\* of the first save; the file is never anything but the data of one save or
\* a file cut short by a write fault.
C17_LastStoreWins ==
    \A t \in Tasks, u \in Tasks :
        Raced(t, u)
            => /\ OwnResult(t) /\ OwnResult(u)
               /\ Len(stores) = 2
               /\ stores[1].task # stores[2].task
               /\ LET k == tasks[t].cache_key.v
                      w == stores[2]
                  IN /\ w.io = "ok"
                        => /\ store[k] = json_dump(w.data)
                           /\ w.data = PyDict(tasks[w.task].ret.value.v)
                     /\ (w.io = "error" /\ stores[1].io = "ok")
                        => store[k] = json_dump(stores[1].data)
                     /\ k \in DOMAIN store
                        => \/ store[k] = Truncated
                           \/ \E i \in 1..2 : store[k] = json_dump(stores[i].data)

\* both looked the key up before either saved; t1 saved 5.0 first, t2 saved
\* 3.0 last, and 3.0 is what the file holds
C17_Witness ==
    /\ Raced("t1", "t2")
    /\ tasks["t1"].at = 0 /\ tasks["t2"].at = 0
    /\ tasks["t1"].found = None /\ tasks["t2"].found = None
    /\ stores[1].task = "t1" /\ stores[1].io = "ok"
    /\ stores[2].task = "t2" /\ stores[2].io = "ok"
    /\ tasks["t1"].ret.value.v.mark = 50
    /\ tasks["t2"].ret.value.v.mark = 30
    /\ store[tasks["t1"].cache_key.v].v.mark = 30

\* the saves of key that were made before the lookup of task t
SavesBefore(t) ==
    {i \in 1..tasks[t].at : stores[i].key = tasks[t].cache_key.v}

\* C18: what get_from_cache hands a task is None or the whole data of a save
\* that finished without a fault before the lookup, and then of the latest
\* save of the key that wrote anything; after a save that was cut short, and
\* when no save wrote the key, the lookup gives None.
C18_ReaderSeesWholeEntry ==
    \A t \in Tasks :
        tasks[t].pc # "new"
            => LET wrote == {i \in SavesBefore(t) : stores[i].io # "error"}
               IN tasks[t].found # None
                    => /\ wrote # {}
                       /\ LET i == CHOOSE j \in wrote : \A m \in wrote : m <= j
                          IN /\ stores[i].io = "ok"
                             /\ tasks[t].found = ReadBack(stores[i].data)

\* t2 looked the key up after t1's write was cut short, found nothing and
\* goes on to the remote agent
C18_Witness ==
    /\ tasks["t1"].pc = "done"
    /\ tasks["t2"].pc = "awaiting"
    /\ tasks["t2"].cache_key = tasks["t1"].cache_key
    /\ tasks["t2"].at = 1
    /\ stores[1].io = "partial"
    /\ store[tasks["t2"].cache_key.v] = Truncated
    /\ tasks["t2"].found = None

\* the attempts the task has started: the loop variable counts from zero
AttemptsStarted(t) ==
    IF tasks[t].pc = "new" \/ tasks[t].ret.kind = "hit" THEN 0 ELSE tasks[t].attempt + 1

\* C23: the attempts of a call follow one another: while a task awaits the
\* remote agent exactly one of its attempts is open, the one the loop
\* variable names, and all attempts before it have completed; a task that
\* sleeps, has ended or has not started has no attempt open; this holds for
\* each task while the other task has an attempt of its own open.
C23_AttemptsSequential ==
    \A t \in Tasks :
        /\ tasks[t].pc = "awaiting"
             => (AttemptsStarted(t) = tasks[t].invocations + 1
                 /\ tasks[t].attempt < LoopRetries)
        /\ tasks[t].pc # "awaiting" => AttemptsStarted(t) = tasks[t].invocations
        /\ tasks[t].invocations <= LoopRetries

\* t1 is in its second attempt, a sleep behind it, while t2 is in its first
C23_Witness ==
    /\ tasks["t1"].pc = "awaiting"
    /\ tasks["t1"].attempt = 1
    /\ tasks["t1"].invocations = 1
    /\ tasks["t1"].slept = <<1>>
    /\ tasks["t2"].pc = "awaiting"
    /\ tasks["t2"].attempt = 0

-----------------------------------------------------------------------------
(* The sessions of one call of run_agent_with_retry. session_service is a  *)
(* local of the call; every attempt creates a session under a random id,   *)
(* runs the agent on it and reads the state of the session with that id.   *)

\* os.urandom(4).hex(): nothing keeps two attempts from drawing the same id
SessionIds == {"s1", "s2"}

\* a session as create_session makes it: no state; created is the attempt
\* that made it, writer the attempt whose run wrote its output
FreshSession(att) == [created |-> att, output |-> None, writer |-> -1]

\* a create_session that hands back the session already stored under the id
create_session_reuse(svc, id, att, mode) ==
    IF id \in DOMAIN svc
    THEN [raised |-> FALSE, svc |-> svc]
    ELSE [raised |-> FALSE,
          svc |-> [i \in DOMAIN svc \cup {id} |->
                      IF i = id THEN FreshSession(att) ELSE svc[i]]]

\* InMemorySessionService.create_session: a new session with empty state is
\* stored under the id; for an id already in use the library, depending on
\* its version, raises (mode "raise") or stores the new session over the old
create_session(svc, id, att, mode) ==
    IF id \in DOMAIN svc /\ mode = "raise"
    THEN [raised |-> TRUE, svc |-> svc]
    ELSE [raised |-> FALSE,
          svc |-> [i \in DOMAIN svc \cup {id} |->
                      IF i = id THEN FreshSession(att) ELSE svc[i]]]

\* what one run of the agent does to its session: it writes an output or
\* none (wrote), and ends or raises (raises), before or after writing
RunOutcomes ==
    {[wrote |-> FALSE, output |-> None, raises |-> b] : b \in BOOLEAN}
    \cup {[wrote |-> TRUE, output |-> out, raises |-> b] :
            out \in GradingOutputs \cup (BadOutputs \ {None}), b \in BOOLEAN}

InitSession ==
    /\ store = [k \in {} |-> None]
    /\ files = {}
    /\ pc = "idle"
    /\ ep = "none"
    /\ req = None
    /\ max_retries = 0
    /\ cache_key = None
    /\ attempt = 0
    /\ invocations = 0
    /\ sleeps = <<>>
    /\ last = NoResult
    /\ saved = None
    /\ ret = NoReturn
    /\ read_io = "none"
    /\ prev = None
    /\ calls = 0
    /\ derive = None
    /\ tasks = None
    /\ stores = <<>>
    /\ sess \in {[pc |-> "create", max_retries |-> n, attempt |-> 0,
                  session_id |-> "none", svc |-> [i \in {} |-> None],
                  ret |-> NoReturn] : n \in 0..MaxRetries}
    /\ util = None

\* the except branch of the loop, lines 107-114
SessionHandler(svc) ==
    LET h == OnException(sess.attempt, sess.max_retries)
    IN IF h.ctl = "continue"
       THEN [sess EXCEPT !.svc = svc, !.attempt = @ + 1, !.pc = "create"]
       ELSE [sess EXCEPT !.svc = svc, !.pc = "done", !.ret = Returned("raised", None)]

\* lines 72-77
CreateSession ==
    /\ sess.pc = "create"
    /\ sess.attempt < sess.max_retries
    /\ \E id \in SessionIds, mode \in {"replace", "raise"} :
        LET c == create_session(sess.svc, id, sess.attempt, mode)
        IN sess' = IF c.raised
                   THEN SessionHandler(sess.svc)
                   ELSE [sess EXCEPT !.svc = c.svc, !.session_id = id, !.pc = "run"]
    /\ UNCHANGED <<callvars, derive, tasks, stores, util>>

\* lines 79-88: the runner works on the session with session_id
RunAgent ==
    /\ sess.pc = "run"
    /\ \E o \in RunOutcomes :
        LET svc == IF o.wrote
                   THEN [sess.svc EXCEPT ![sess.session_id] =
                            [@ EXCEPT !.output = o.output, !.writer = sess.attempt]]
                   ELSE sess.svc
        IN sess' = IF o.raises
                   THEN SessionHandler(svc)
                   ELSE [sess EXCEPT !.svc = svc, !.pc = "get"]
    /\ UNCHANGED <<callvars, derive, tasks, stores, util>>

\* lines 90-105: get_session(session_id), session.state.get(output_key) and
\* what the loop makes of it
GetSession ==
    /\ sess.pc = "get"
    /\ LET structured_output == sess.svc[sess.session_id].output
           s == run_agent_attempt("GradingResult", sess.attempt, sess.max_retries,
                                  State(structured_output))
       IN sess' = CASE s.ctl = "return" ->
                        [sess EXCEPT !.pc = "done", !.ret = Returned("computed", s.value)]
                    [] s.ctl = "continue" ->
                        [sess EXCEPT !.attempt = @ + 1, !.pc = "create"]
                    [] OTHER ->
                        [sess EXCEPT !.pc = "done", !.ret = Returned("raised", None)]
    /\ UNCHANGED <<callvars, derive, tasks, stores, util>>

\* range(max_retries) is used up without a return or a raise from the body:
\* the function ends without a return statement and gives None
LoopExit ==
    /\ sess.pc = "create"
    /\ sess.attempt >= sess.max_retries
    /\ sess' = [sess EXCEPT !.pc = "done", !.ret = Returned("none", None)]
    /\ UNCHANGED <<callvars, derive, tasks, stores, util>>

NextSession == CreateSession \/ RunAgent \/ GetSession \/ LoopExit

SpecSession == InitSession /\ [][NextSession]_vars

\* C19: the session an attempt runs on and reads was created in that
\* attempt and starts without state; the output the attempt reads was
\* written by its own run, also when the random id was in use before; and a
\* result the call returns was built from the output that the run of the
\* returning attempt wrote into the session of that attempt.
C19_FreshSessionPerAttempt ==
    LET s == sess.svc[sess.session_id]
    IN /\ sess.pc \in {"run", "get"} => s.created = sess.attempt
       /\ sess.pc = "run" => (s.output = None /\ s.writer = -1)
       /\ sess.pc = "get" => (s.output = None \/ s.writer = sess.attempt)
       /\ (sess.pc = "done" /\ sess.ret.kind = "computed")
            => /\ s.created = sess.attempt
               /\ s.writer = sess.attempt
               /\ sess.ret.value = Construct("GradingResult", s.output)

\* the second attempt drew the id of the first, the only id the service has
\* seen: the session under it is the one the second attempt created, and the
\* call returns what the second run wrote
C19_Witness ==
    /\ sess.pc = "done"
    /\ sess.attempt = 1
    /\ sess.ret.kind = "computed"
    /\ DOMAIN sess.svc = {"s1"}
    /\ sess.svc["s1"].created = 1
    /\ sess.svc["s1"].writer = 1
    /\ sess.ret.value.v.mark = 30

\* C25: a call of run_agent_with_retry that has ended has returned an
\* instance of the output type built from the output of an attempt, or has
\* raised; it never ends in any other way, whatever max_retries is.
C25_ReturnsResultOrRaises ==
    sess.pc = "done"
        => \/ sess.ret.kind = "raised"
           \/ (sess.ret.kind = "computed" /\ sess.ret.value.t = "GradingResult")

-----------------------------------------------------------------------------
(* grading_utils: load_annotations and build_student_id_mapping, as pure    *)
(* functions of the files they read.  SpecUtil draws the files, applies the *)
(* function and keeps what it returned in util.                             *)

MaxAnnotations == 3
MaxScanPage == 3
MaxItems == 2

MetaLabels == <<"NAME", "ID", "CLASS">>
Labels == {"NAME", "ID", "CLASS", "Q1", "Q2", "Q10"}

\* str.__lt__ on the labels: code points compared left to right, a proper
\* prefix first ("Q1" < "Q10" < "Q2", and capitals in alphabetical order)
LabelsInOrder == <<"CLASS", "ID", "NAME", "Q1", "Q10", "Q2">>
IndexOf(s, x) == CHOOSE i \in DOMAIN s : s[i] = x
str_lt(a, b) == IndexOf(LabelsInOrder, a) < IndexOf(LabelsInOrder, b)

\* int(page) of a page key and str(p) of a page number
PageNumbers == (0 - MaxScanPage)..MaxScanPage
str(p) == ToString(p)
int(key) == CHOOSE p \in PageNumbers : str(p) = key

\* annotations.json: a dict page key -> list of boxes.  The model keeps its
\* boxes in the order in which `for page in annotations: for annotation in
\* annotations[page]` meets them, each with the key of its page; a key
\* stands once in a dict, so the boxes of one page are next to each other.
Boxes == [page : {str(p) : p \in 1..MaxScanPage}, label : Labels,
          x : {10}, y : {20}]
AnnotationFiles ==
    {f \in UNION {[1..n -> Boxes] : n \in 0..MaxAnnotations} :
        \A i, j \in DOMAIN f : i <= j => int(f[i].page) <= int(f[j].page)}

\* the body of the two for loops: page, left and top replace x and y
annotations_list(f) ==
    [i \in DOMAIN f |->
        [label |-> f[i].label, page |-> int(f[i].page),
         left |-> f[i].x, top |-> f[i].y]]

\* {ann["label"]: ann for ann in annotations_list}: the last box of a label
annotations_dict(l) ==
    [lab \in {l[i].label : i \in DOMAIN l} |->
        l[CHOOSE i \in DOMAIN l :
            /\ l[i].label = lab
            /\ \A j \in DOMAIN l : l[j].label = lab => j <= i]]

\* `if label not in questions: questions.append(label)`
RECURSIVE unique_labels(_, _)
unique_labels(l, questions) ==
    IF l = <<>> THEN questions
    ELSE unique_labels(Tail(l),
            IF \E i \in DOMAIN questions : questions[i] = Head(l).label
            THEN questions
            ELSE Append(questions, Head(l).label))

\* list.remove(x) after `if x in list`: the first x goes, if there is one
list_remove(s, x) ==
    IF \E i \in DOMAIN s : s[i] = x
    THEN LET k == CHOOSE i \in DOMAIN s :
                    s[i] = x /\ \A j \in DOMAIN s : s[j] = x => i <= j
         IN [i \in 1..(Len(s) - 1) |-> IF i < k THEN s[i] ELSE s[i + 1]]
    ELSE s

RECURSIVE remove_all(_, _)
remove_all(s, metas) ==
    IF metas = <<>> THEN s
    ELSE remove_all(list_remove(s, Head(metas)), Tail(metas))

\* load_annotations after json.load
load_annotations(f) ==
    LET l == annotations_list(f)
        questions == SortSeq(remove_all(unique_labels(l, <<>>), MetaLabels),
                             str_lt)
    IN <<l, annotations_dict(l), MetaLabels \o questions>>

\* ID/mark.json: a list of items; annotations.json counts as its page keys
Marks == {"A", "B"}
OverridedMarks == {"", "C"}
Items == [id : {str(p) : p \in 1..MaxScanPage}, mark : Marks,
          overridedMark : OverridedMarks]
MarkFiles == UNION {[1..n -> Items] : n \in 0..MaxItems}
PageKeys == {[i \in 1..n |-> str(i)] : n \in 0..(MaxScanPage - 1)}

\* the loop over mark.json: a later item of the same id replaces the earlier
RECURSIVE pageToStudentId(_, _)
pageToStudentId(items, d) ==
    IF items = <<>> THEN d
    ELSE LET item == Head(items)
             v == IF item.overridedMark # "" THEN item.overridedMark
                  ELSE item.mark
         IN pageToStudentId(Tail(items),
                [k \in DOMAIN d \cup {item.id} |->
                    IF k = item.id THEN v ELSE d[k]])

\* a search that goes down to the first page of the scan
RECURSIVE getStudentId_whole_scan(_, _, _)
getStudentId_whole_scan(d, numberOfPage, page) ==
    IF page < 1 THEN None
    ELSE IF str(page) \in DOMAIN d THEN PyStr(d[str(page)])
    ELSE getStudentId_whole_scan(d, numberOfPage, page - 1)

\* for p in range(page, page - numberOfPage, -1), from p on
RECURSIVE search_from(_, _, _)
search_from(d, p, stop) ==
    IF p <= stop THEN None
    ELSE IF str(p) \in DOMAIN d THEN PyStr(d[str(p)])
    ELSE search_from(d, p - 1, stop)

getStudentId(d, numberOfPage, page) ==
    search_from(d, page, page - numberOfPage)

InitUtil ==
    /\ store = [k \in {} |-> None]
    /\ files = {}
    /\ pc = "idle"
    /\ ep = "none"
    /\ req = None
    /\ max_retries = 0
    /\ cache_key = None
    /\ attempt = 0
    /\ invocations = 0
    /\ sleeps = <<>>
    /\ last = NoResult
    /\ saved = None
    /\ ret = NoReturn
    /\ read_io = "none"
    /\ prev = None
    /\ calls = 0
    /\ derive = None
    /\ tasks = None
    /\ stores = <<>>
    /\ sess = None
    /\ util \in {[fn |-> "load_annotations", pc |-> "call", file |-> f]
                    : f \in AnnotationFiles}
            \cup {[fn |-> "build_student_id_mapping", pc |-> "call",
                   annotations |-> a, marks |-> m]
                    : a \in PageKeys, m \in MarkFiles}

LoadAnnotations ==
    /\ util.fn = "load_annotations"
    /\ util.pc = "call"
    /\ util' = [fn |-> "load_annotations", pc |-> "done", file |-> util.file,
                ret |-> load_annotations(util.file)]
    /\ UNCHANGED <<callvars, derive, tasks, stores, sess>>

BuildStudentIdMapping ==
    /\ util.fn = "build_student_id_mapping"
    /\ util.pc = "call"
    /\ util' = [fn |-> "getStudentId", pc |-> "built", marks |-> util.marks,
                pageToStudentId |->
                    pageToStudentId(util.marks, [k \in {} |-> ""]),
                numberOfPage |-> Len(util.annotations)]
    /\ UNCHANGED <<callvars, derive, tasks, stores, sess>>

GetStudentId ==
    /\ util.fn = "getStudentId"
    /\ util.pc = "built"
    /\ \E page \in 1..MaxScanPage :
        util' = [fn |-> "getStudentId", pc |-> "done", marks |-> util.marks,
                 pageToStudentId |-> util.pageToStudentId,
                 numberOfPage |-> util.numberOfPage, page |-> page,
                 ret |-> getStudentId(util.pageToStudentId,
                                      util.numberOfPage, page)]
    /\ UNCHANGED <<callvars, derive, tasks, stores, sess>>

NextUtil == LoadAnnotations \/ BuildStudentIdMapping \/ GetStudentId

SpecUtil == InitUtil /\ [][NextUtil]_vars

\* the labels of the file that are no metadata labels
QuestionLabels(f) ==
    {f[i].label : i \in DOMAIN f} \ {MetaLabels[i] : i \in DOMAIN MetaLabels}

\* C26: the third result of load_annotations is the list of the question
\* labels of the file in ascending order, each once, and holds none of NAME,
\* ID and CLASS.
C26_QuestionsExcludeMetadata ==
    (util.fn = "load_annotations" /\ util.pc = "done")
        => LET q == util.ret[3]
           IN /\ {q[i] : i \in DOMAIN q} = QuestionLabels(util.file)
              /\ \A i, j \in DOMAIN q : i < j => str_lt(q[i], q[j])

\* the page of the window nearest to `page` that has an entry, as a set
NearestWithEntry(marks, numberOfPage, page) ==
    LET has(p) == \E i \in DOMAIN marks : marks[i].id = str(p)
        window == {p \in (page - numberOfPage + 1)..page : has(p)}
    IN {p \in window : \A q \in window : q <= p}

\* what mark.json records for a page: the overridden mark of its last item
\* when that is not empty, the recognised mark otherwise
RecordedId(marks, p) ==
    LET i == CHOOSE k \in DOMAIN marks :
                /\ marks[k].id = str(p)
                /\ \A j \in DOMAIN marks : marks[j].id = str(p) => j <= k
    IN IF marks[i].overridedMark # "" THEN marks[i].overridedMark
       ELSE marks[i].mark

\* C27: getStudentId(page) returns the ID recorded for the nearest page at
\* or below `page` that has an entry among page, page-1, ...,
\* page-numberOfPage+1, and None when none of these pages has one; a
\* non-empty overridden mark is the ID in place of the recognised mark.
C27_NearestIdWithinWindow ==
    (util.fn = "getStudentId" /\ util.pc = "done")
        => LET near == NearestWithEntry(util.marks, util.numberOfPage,
                                        util.page)
           IN IF near = {} THEN util.ret = None
              ELSE \A p \in near :
                    util.ret = PyStr(RecordedId(util.marks, p))

\* page 3 of a two-page paper has no entry, page 2 has an overridden one
\* and page 1, outside the window, another: the ID is the overridden mark
C27_Witness ==
    /\ util.fn = "getStudentId"
    /\ util.pc = "done"
    /\ util.numberOfPage = 2
    /\ util.page = 3
    /\ DOMAIN util.pageToStudentId = {"1", "2"}
    /\ util.marks[2] = [id |-> "2", mark |-> "A", overridedMark |-> "C"]
    /\ util.ret = PyStr("C")

-----------------------------------------------------------------------------
(* A cache directory left behind by something else than the calls of this  *)
(* run: SpecStale starts with one file whose JSON text is no entry that    *)
(* the entry point of its key writes.                                      *)

\* JSON texts of a wrong shape: an object without the fields, arrays of one
\* and of two elements that are no scheme, a string
StaleObject == [j |-> "object", v |-> [unexpected |-> "x"]]
StaleArrayOfOne == [j |-> "array", v |-> <<"oops">>]
StaleArrayOfTwo == [j |-> "array", v |-> <<"oops", "again">>]
StaleString == [j |-> "string", v |-> "plain text"]

\* the cache directory with one file
OneFile(key, text) == [k \in {key} |-> text]

\* the files left behind: under the key of a request of each cached entry
\* point, a text of a wrong shape
StaleStore(st) ==
    \/ \E rq \in {r \in GradeRequests : ~r.numpy} :
            \/ st = OneFile(grade_answer_key(rq), StaleObject)
            \/ st = OneFile(grade_answer_key(rq), StaleArrayOfTwo)
    \/ \E rq \in OcrGradeRequests : st = OneFile(grade_answer_ocr_key(rq), StaleObject)
    \/ \E rq \in {r \in ReportRequests : Encodable(r.question_details)} :
            st = OneFile(performance_report_key(rq), StaleObject)
    \/ \E rq \in OverviewRequests : st = OneFile(class_overview_key(rq), StaleObject)
    \/ \E rq \in InsightsRequests : st = OneFile(question_insights_key(rq), StaleObject)
    \/ \E rq \in ExtractRequests :
            \/ st = OneFile(marking_scheme_key(rq), StaleObject)
            \/ st = OneFile(marking_scheme_key(rq), StaleArrayOfOne)
            \/ st = OneFile(marking_scheme_key(rq), StaleArrayOfTwo)
            \/ st = OneFile(marking_scheme_key(rq), StaleString)

InitStale ==
    /\ StaleStore(store)
    /\ files = {}
    /\ pc = "idle"
    /\ ep = "none"
    /\ req = None
    /\ max_retries = 0
    /\ cache_key = None
    /\ attempt = 0
    /\ invocations = 0
    /\ sleeps = <<>>
    /\ last = NoResult
    /\ saved = None
    /\ ret = NoReturn
    /\ read_io = "none"
    /\ prev = None
    /\ calls = 0
    /\ derive = None
    /\ tasks = None
    /\ stores = <<>>
    /\ sess = None
    /\ util = None

NextStale ==
    \/ grade_answer_with_ai
    \/ grade_answer_with_ocr_and_ai
    \/ generate_student_report_with_ai
    \/ generate_class_overview_with_ai
    \/ generate_question_insights_with_ai
    \/ extract_marking_scheme_with_ai
    \/ run_agent_with_retry
    \/ Return

SpecStale == InitStale /\ [][NextStale]_vars

\* the first call of the run starts and reads the file that was left behind
ReadsStaleFile ==
    /\ CachedStart
    /\ calls = 0
    /\ cache_key' # None
    /\ cache_key'.v \in DOMAIN store
    /\ read_io' = "ok"

\* C34: a call that reads an entry of a wrong shape is not answered from
\* the cache: with max_retries >= 1 it goes on to run the remote agent, and
\* when it then computes a result and the save succeeds, the file of its
\* key holds the new result in place of the bad entry.
C34_BadEntryIsMiss ==
    [][/\ ReadsStaleFile
            => /\ ret'.kind # "hit"
               /\ max_retries' >= 1 => (pc' = "attempt" /\ ret' = NoReturn)
       /\ (pc = "attempt" /\ pc' = "done" /\ ret'.kind = "computed"
           /\ saved' # None /\ saved'.io = "ok")
            => store'[cache_key.v] = json_dump(saved'.data)]_vars

-----------------------------------------------------------------------------
(* reorder_notebook.py: reorder_code and the script around it.  A source   *)
(* is the sequence of its lines, line ends kept, which is what             *)
(* splitlines(keepends=True) makes of it and "".join makes it from; a line *)
(* is its place in the original text and the markers it contains.          *)

MaxPrefix == 1
MaxBody == 1

\* the keys of `markers`, in the order of the dict
MarkerKeys ==
    <<"start", "gemini_narrative", "infographic", "class_charts", "metrics_table",
      "question_metrics", "question_insights", "strengths_focus", "footer">>

\* lines 98-108
new_order ==
    <<"start", "gemini_narrative", "infographic", "question_insights",
      "strengths_focus", "class_charts", "metrics_table", "question_metrics",
      "footer">>

KeySet == {MarkerKeys[i] : i \in DOMAIN MarkerKeys}

\* lines 27-31: the first line that contains the marker, 0 when none does
FirstIndex(lines, key) ==
    IF \E i \in DOMAIN lines : key \in lines[i].has
    THEN CHOOSE i \in DOMAIN lines :
            /\ key \in lines[i].has
            /\ \A j \in DOMAIN lines : key \in lines[j].has => i <= j
    ELSE 0

\* lines 24-34: the index of each marker
indices(lines) == [k \in KeySet |-> FirstIndex(lines, k)]

\* sorted(indices.items(), key=lambda x: x[1]): by line, and keys of the
\* same line in the order of the dict, the sort being stable
SortedBefore(idx, a, b) ==
    \/ idx[a] < idx[b]
    \/ /\ idx[a] = idx[b]
       /\ IndexOf(MarkerKeys, a) < IndexOf(MarkerKeys, b)

sorted_markers(idx) ==
    [n \in DOMAIN MarkerKeys |->
        CHOOSE k \in KeySet :
            Cardinality({o \in KeySet : SortedBefore(idx, o, k)}) = n - 1]

\* lines[a:b] with a and b counted from 1, b exclusive
Slice(lines, a, b) == [i \in 1..(IF b > a THEN b - a ELSE 0) |-> lines[a + i - 1]]

\* lines 73-85: from each marker to the next one, the last to the end
chunks(lines, idx, sm, key) ==
    LET i == IndexOf(sm, key)
    IN IF i < Len(sm)
       THEN Slice(lines, idx[key], idx[sm[i + 1]])
       ELSE Slice(lines, idx[key], Len(lines) + 1)

\* lines 110-119
RECURSIVE Reassemble(_, _, _, _)
Reassemble(lines, idx, sm, keys) ==
    IF keys = <<>> THEN <<>>
    ELSE chunks(lines, idx, sm, Head(keys)) \o Reassemble(lines, idx, sm, Tail(keys))

\* a script that writes whatever reorder_code returned
SourceChanged_always(new_source, source) == TRUE

\* line 130: new_source != cell.source
SourceChanged(new_source, source) == new_source # source

\* lines 6-119
reorder_code(source) ==
    LET idx == indices(source)
    IN IF \E k \in KeySet : idx[k] = 0
       THEN source
       ELSE Reassemble(source, idx, sorted_markers(idx), new_order)

\* the order the script's comment assumes, the desired one, and the assumed
\* one with two neighbours exchanged
AssumedOrder == MarkerKeys
Exchanged(s, n) ==
    [i \in DOMAIN s |-> IF i = n THEN s[n + 1] ELSE IF i = n + 1 THEN s[n] ELSE s[i]]
BlockOrders ==
    {AssumedOrder, new_order} \cup
    {Exchanged(AssumedOrder, n) : n \in 1..(Len(AssumedOrder) - 1)}

\* the markers of the lines of a cell: `prefix` lines before the first
\* block, then the blocks in the given order, each a marker line and `body`
\* lines; a missing marker takes its line away, and with `joint` the
\* markers of the first two blocks stand on one line
RECURSIVE BlockLines(_, _, _, _)
BlockLines(order, body, missing, joint) ==
    IF order = <<>> THEN <<>>
    ELSE LET k == Head(order)
             plain == [i \in 1..body |-> {}]
         IN IF k = missing
            THEN plain \o BlockLines(Tail(order), body, missing, FALSE)
            ELSE IF joint /\ Len(order) > 1
                 THEN <<{k, order[2]}>> \o plain
                        \o BlockLines(Tail(Tail(order)), body, missing, FALSE)
                 ELSE <<{k}>> \o plain
                        \o BlockLines(Tail(order), body, missing, FALSE)

Source(prefix, order, body, missing, joint) ==
    LET has == [i \in 1..prefix |-> {}] \o BlockLines(order, body, missing, joint)
    IN [i \in DOMAIN has |-> [id |-> i, has |-> has[i]]]

Sources ==
    {Source(prefix, order, body, missing, joint) :
        prefix \in 0..MaxPrefix, order \in BlockOrders, body \in 0..MaxBody,
        missing \in KeySet \cup {"none"}, joint \in BOOLEAN}

\* the cells before the generation cell: none, a markdown cell that quotes
\* the function, a code cell without it
TextOnly == <<[id |-> 1, has |-> {}]>>
LeadingCells ==
    {<<>>,
     <<[cell_type |-> "markdown", source |-> <<[id |-> 1, has |-> {"start"}]>>]>>,
     <<[cell_type |-> "code", source |-> TextOnly]>>}

Notebooks ==
    {lead \o <<[cell_type |-> "code", source |-> s]>> :
        lead \in LeadingCells, s \in Sources}

\* lines 126-127: the first code cell that contains the start marker, 0 when
\* there is none
GenerationCell(nb) ==
    LET hits == {i \in DOMAIN nb :
                    /\ nb[i].cell_type = "code"
                    /\ \E j \in DOMAIN nb[i].source : "start" \in nb[i].source[j].has}
    IN IF hits = {} THEN 0 ELSE CHOOSE i \in hits : \A j \in hits : i <= j

InitReorder ==
    /\ store = [k \in {} |-> None]
    /\ files = {}
    /\ pc = "idle"
    /\ ep = "none"
    /\ req = None
    /\ max_retries = 0
    /\ cache_key = None
    /\ attempt = 0
    /\ invocations = 0
    /\ sleeps = <<>>
    /\ last = NoResult
    /\ saved = None
    /\ ret = NoReturn
    /\ read_io = "none"
    /\ prev = None
    /\ calls = 0
    /\ derive = None
    /\ tasks = None
    /\ stores = <<>>
    /\ sess = None
    /\ util \in {[fn |-> "reorder_notebook", pc |-> "start", read |-> nb,
                  disk |-> nb, new_source |-> <<>>, writes |-> 0]
                    : nb \in Notebooks}

\* lines 121-143: the whole script
ReorderNotebook ==
    /\ util.fn = "reorder_notebook"
    /\ util.pc = "start"
    /\ LET nb == util.disk
           c == GenerationCell(nb)
           new_source == IF c = 0 THEN <<>> ELSE reorder_code(nb[c].source)
           processed == c # 0 /\ SourceChanged(new_source, nb[c].source)
       IN util' = [fn |-> "reorder_notebook", pc |-> "done", read |-> nb,
                   disk |-> IF processed
                            THEN [nb EXCEPT ![c].source = new_source]
                            ELSE nb,
                   new_source |-> new_source,
                   writes |-> IF processed THEN 1 ELSE 0]
    /\ UNCHANGED <<callvars, derive, tasks, stores, sess>>

NextReorder == ReorderNotebook

SpecReorder == InitReorder /\ [][NextReorder]_vars

\* the source of the cell the script worked on, before and after;
\* util.new_source is what reorder_code returned for it
CellRead == util.read[GenerationCell(util.read)].source
CellOnDisk == util.disk[GenerationCell(util.read)].source

AllMarkersFound(source) == \A k \in KeySet : FirstIndex(source, k) # 0

\* t holds every line of s as often as s does, and no other
IsPermutation(s, t) ==
    /\ Len(s) = Len(t)
    /\ \A i \in DOMAIN s :
        Cardinality({j \in DOMAIN s : s[j] = s[i]})
            = Cardinality({j \in DOMAIN t : t[j] = s[i]})

\* C36: when all nine markers are found, the source reorder_code returns
\* consists of the lines of its input, each as often as in the input, the
\* lines before the first marker included.
C36_OutputIsPermutation ==
    (util.fn = "reorder_notebook" /\ util.pc = "done"
     /\ GenerationCell(util.read) # 0 /\ AllMarkersFound(CellRead))
        => IsPermutation(CellRead, util.new_source)

\* C37: when a marker is missing from the cell, reorder_code returns the
\* source as it is and the script does not write the notebook; the script
\* writes exactly when the source reorder_code returned differs from the
\* source of the cell, and then the cell on disk holds that source and the
\* other cells are as they were.
C37_WrittenOnlyWhenChanged ==
    (util.fn = "reorder_notebook" /\ util.pc = "done")
        => IF GenerationCell(util.read) = 0
           THEN util.writes = 0 /\ util.disk = util.read
           ELSE /\ ~AllMarkersFound(CellRead)
                    => /\ util.new_source = CellRead
                       /\ util.writes = 0
                /\ util.writes = 1 <=> util.new_source # CellRead
                /\ util.writes = 0 => util.disk = util.read
                /\ util.writes = 1
                    => /\ CellOnDisk = util.new_source
                       /\ \A i \in DOMAIN util.read :
                            i # GenerationCell(util.read)
                                => util.disk[i] = util.read[i]

\* the cell has the function but not the footer marker: nothing is written
C37_Witness ==
    /\ util.fn = "reorder_notebook"
    /\ util.pc = "done"
    /\ GenerationCell(util.read) = 2
    /\ FirstIndex(CellRead, "footer") = 0
    /\ FirstIndex(CellRead, "strengths_focus") # 0
    /\ util.writes = 0
    /\ util.disk = util.read

=============================================================================
